---------------------------- MODULE Spec2Model ----------------------------
(***************************************************************************)
(* Polar-alignment motor controller (ESP32 + TMC2209 sketch): the command  *)
(* interpreter loop(), the blocking step generator stepAxis() and the      *)
(* status frame sendStatus(), modelled from the latest revision of the     *)
(* sketch (src/unnamed/part_000, second copy, lines 257-486).              *)
(*                                                                         *)
(* Numbers.  The sketch computes in IEEE-754 single precision.  A float   *)
(* is the record [cls, m, e]: a finite float is m * 2^e with m odd (or     *)
(* zero), an infinity carries its sign in m, and NaN is one value.  Sums,  *)
(* differences and products are rounded as the float operations round      *)
(* them (to nearest, ties to even), comparisons with NaN are false, and    *)
(* lroundf is undefined beyond the range of long, as labs is for the least *)
(* long.  String::toFloat reads text as atof does and Print::print writes  *)
(* a float as the core does.                                               *)
(* The properties name angles by whole numbers of 2^-22 degrees (Flt, Val) *)
(* and most host lines carry multiples of 2^-11 degrees (Grid), between    *)
(* which all sums and differences are exact.                               *)
(*                                                                         *)
(* Text.  A String is a sequence of one-character strings.                 *)
(***************************************************************************)
EXTENDS Integers, Sequences, FiniteSets, TLC

Pow2(k) == 2 ^ k

Abs(n) == IF n < 0 THEN -n ELSE n
Sgn(n) == IF n < 0 THEN -1 ELSE IF n > 0 THEN 1 ELSE 0

RECURSIVE BitLen(_)
BitLen(h) == IF h = 0 THEN 0 ELSE 1 + BitLen(h \div 2)

(***************************************************************************)
(* float                                                                   *)
(***************************************************************************)
NaN == [cls |-> "nan", m |-> 0, e |-> 0]
Inf(sign) == [cls |-> "inf", m |-> sign, e |-> 0]
FZero == [cls |-> "fin", m |-> 0, e |-> 0]

\* The finite float m * 2^e in its one form: m odd, or zero.
RECURSIVE Fin(_, _)
Fin(m, e) ==
    IF m = 0 THEN FZero
    ELSE IF m % 2 = 0 THEN Fin(m \div 2, e + 1)
    ELSE [cls |-> "fin", m |-> m, e |-> e]

IsNaN(f) == f.cls = "nan"
IsFinite(f) == f.cls = "fin"
\* The exponent of the leading bit, plus one: |f| is in [2^(Top-1), 2^Top).
Top(f) == BitLen(Abs(f.m)) + f.e

\* Exponent of the smallest positive float (2^-149); floats end below 2^128.
MinExp == -149
MaxTop == 128

(***************************************************************************)
(* The float nearest to sign * (M + t) * 2^E, where M < 2^30 is a whole    *)
(* number and t is a fraction in (0,1) when sticky holds, 0 otherwise      *)
(* (sticky is used only where at least one bit of M is dropped): the       *)
(* magnitude is cut to its 24 leading bits, or at 2^-149 if that comes     *)
(* first, to nearest, ties to the even neighbour; beyond the largest float *)
(* the result is an infinity.                                              *)
(***************************************************************************)
\* Bits dropped from M * 2^E: those below the 24 leading bits, or below
\* 2^-149 if that comes first.
RoundDrop(M, E) ==
    IF BitLen(M) - 24 > MinExp - E
    THEN (IF BitLen(M) > 24 THEN BitLen(M) - 24 ELSE 0)
    ELSE (IF MinExp > E THEN MinExp - E ELSE 0)

\* The magnitude q * 2^E as a float of the given sign, or an infinity.
Pack(sign, q, E) == IF BitLen(q) + E > MaxTop THEN Inf(sign) ELSE Fin(sign * q, E)

\* q with remainder r of s > 0 dropped bits: one more when the remainder is
\* above half, or at half with something below it or with q odd.
RoundUp(q, r, half, sticky) ==
    IF r > half \/ (r = half /\ (sticky \/ q % 2 = 1)) THEN q + 1 ELSE q

RoundAt(sign, M, E, sticky, s) ==
    IF s > BitLen(M) THEN FZero
    ELSE IF s = 0 THEN Pack(sign, M, E)
    ELSE Pack(sign, RoundUp(M \div Pow2(s), M % Pow2(s), Pow2(s - 1), sticky), E + s)

Round(sign, M, E, sticky) == RoundAt(sign, M, E, sticky, RoundDrop(M, E))
\* (float) n for a whole number n
FromInt(n) == Round(Sgn(n), Abs(n), 0, FALSE)

fneg(a) == [a EXCEPT !.m = -@]

\* The magnitude of a finite float lo in units of 2^g, cut to a whole number.
loBits(lo, k) ==
    IF k <= 0 THEN Abs(lo.m) * Pow2(-k)
    ELSE IF k > 24 THEN 0 ELSE Abs(lo.m) \div Pow2(k)

\* sh * HI + sl * (LO + t) in units of 2^g, t a fraction in (0,1) when st
\* holds: S is the signed sum in the direction of sh, cut downwards.
addRound(sh, sl, S, g, st) ==
    IF S >= 0 THEN Round(sh, S, g, st) ELSE Round(sl, -S, g, FALSE)

addSigned(sh, sl, HI, LO, g, st) ==
    addRound(sh, sl,
             IF sh = sl THEN HI + LO ELSE HI - LO - (IF st THEN 1 ELSE 0),
             g, st)

\* hi + lo for finite non-zero floats with Top(hi) >= Top(lo), in units of
\* 2^g: three guard bits below the 24 leading bits of hi; the bits of lo
\* below 2^g are dropped and remembered (lo.m is odd).
addAligned(hi, lo, g) ==
    addSigned(Sgn(hi.m), Sgn(lo.m), Abs(hi.m) * Pow2(hi.e - g),
              loBits(lo, g - lo.e), g, g - lo.e > 0)

\* a + b on floats
fadd(a, b) ==
    IF IsNaN(a) \/ IsNaN(b) THEN NaN
    ELSE IF a.cls = "inf" THEN (IF b.cls = "inf" /\ b.m # a.m THEN NaN ELSE a)
    ELSE IF b.cls = "inf" THEN b
    ELSE IF a.m = 0 THEN b
    ELSE IF b.m = 0 THEN a
    ELSE IF Top(a) >= Top(b) THEN addAligned(a, b, Top(a) - 27)
    ELSE addAligned(b, a, Top(b) - 27)
\* a - b on floats
fsub(a, b) == fadd(a, fneg(b))

\* a < b on floats: false when either is a NaN
fless(a, b) ==
    IF IsNaN(a) \/ IsNaN(b) THEN FALSE
    ELSE IF a.cls = "inf" THEN a.m < 0 /\ ~(b.cls = "inf" /\ b.m < 0)
    ELSE IF b.cls = "inf" THEN b.m > 0
    ELSE fsub(a, b).m < 0

\* a <= b on floats: false when either is a NaN
fleq(a, b) == ~IsNaN(a) /\ ~IsNaN(b) /\ ~fless(b, a)

\* a * b on floats: the 48-bit product of the two 24-bit magnitudes is
\* computed in 12-bit limbs as T * 2^24 + B with B < 2^24; its 30 leading
\* bits are handed to Round, the rest as sticky.
\* c: the bits of B that are cut off.
mulCut(sign, T, B, E, c) ==
    Round(sign, T * Pow2(24 - c) + (B \div Pow2(c)), E + c, B % Pow2(c) # 0)

mulTB(sign, T, B, E) == mulCut(sign, T, B, E, IF BitLen(T) > 6 THEN BitLen(T) - 6 ELSE 0)

\* p0 = xl * yl and t1 = xh * yl + xl * yh + (p0 \div 4096)
mulParts(sign, hh, t1, p0, E) ==
    mulTB(sign, hh + (t1 \div 4096), (t1 % 4096) * 4096 + (p0 % 4096), E)

mulLimbs(sign, xh, xl, yh, yl, E) ==
    mulParts(sign, xh * yh, xh * yl + xl * yh + ((xl * yl) \div 4096), xl * yl, E)

fmul(a, b) ==
    IF IsNaN(a) \/ IsNaN(b) THEN NaN
    ELSE IF a.cls = "inf" \/ b.cls = "inf"
         THEN (IF a.m = 0 \/ b.m = 0 THEN NaN ELSE Inf(Sgn(a.m) * Sgn(b.m)))
    ELSE mulLimbs(Sgn(a.m) * Sgn(b.m), Abs(a.m) \div 4096, Abs(a.m) % 4096,
                  Abs(b.m) \div 4096, Abs(b.m) % 4096, a.e + b.e)

(***************************************************************************)
(* lroundf(x): the whole number nearest to x, halves away from zero.  The  *)
(* result is a long, of 32 bits on the ESP32: LONG_MIN = -2^31 to          *)
(* LONG_MAX = 2^31 - 1.  For a NaN, an infinity or a rounded value outside *)
(* that range the C standard leaves the result open.  A float of magnitude *)
(* 2^23 or more is a whole number, so the only float of magnitude 2^31 or  *)
(* more whose rounded value is in range is -2^31 itself.                   *)
(***************************************************************************)
LONG_MAX == 2147483647
LONG_MIN == -LONG_MAX - 1
lroundfDefined(x) == IsFinite(x) /\ (Top(x) <= 31 \/ (x.m = -1 /\ x.e = 31))
lroundf(x) ==
    IF x.e = 0 THEN x.m
    ELSE IF x.e > 0 THEN (x.m * Pow2(x.e - 1)) * 2
    ELSE IF -x.e > 25 THEN 0
    ELSE Sgn(x.m) * ((Abs(x.m) + Pow2(-x.e - 1)) \div Pow2(-x.e))
\* What the build may yield where the result of lroundf is open: nothing,
\* the largest long of either sign, or the least long (what the x86 build
\* returns for a NaN).
LroundfUndefined == {0, LONG_MAX, -LONG_MAX, LONG_MIN}
\* labs(n): the magnitude of n.  -LONG_MIN is no long: labs(LONG_MIN) is
\* undefined.
labsDefined(n) == n # LONG_MIN
labs(n) == Abs(n)
\* What the build may make of totalSteps = labs(LONG_MIN) and of the for
\* loop after it.  The value stays LONG_MIN; the loop goes on while
\* s < totalSteps, which fails at once (unoptimized build: "lt"), or until
\* s equals totalSteps (optimized builds: "ne"), which it does after 2^31
\* pulses, when ++s has gone from LONG_MAX to LONG_MIN.
LabsUndefined == {"lt", "ne"}
\* ++s
increment(s) == IF s = LONG_MAX THEN LONG_MIN ELSE s + 1

(***************************************************************************)
(* Angles on a grid.  Most host lines of the model carry multiples of      *)
(* 2^-22 degrees; such a float of magnitude below 256 is named by the      *)
(* whole number u of its units (u / 2^22 degrees).                         *)
(***************************************************************************)
\* Number of grid units in one degree.
Unit == Pow2(22)
\* 2^-11 degrees, in grid units.
Grid == Unit \div Pow2(11)
\* The float nearest to u / 2^22.
Flt(u) == Round(Sgn(u), Abs(u), -22, FALSE)
\* The units of a float that is a multiple of 2^-22.
Val(f) == CASE f.cls = "fin" /\ f.e >= -22 -> f.m * Pow2(f.e + 22)

(***************************************************************************)
(* USER-TUNABLE CONSTANTS                                                  *)
(***************************************************************************)
MOTOR_FULL_STEPS == 200
MICROSTEPPING == 16
GEAR_RATIO_AZM == 100
GEAR_RATIO_ALT == 90

\* Soft travel limits (degrees)
LIMIT_AZM_MIN_DEG == Fin(-15, 0)
LIMIT_AZM_MAX_DEG == Fin(15, 0)
LIMIT_ALT_MIN_DEG == Fin(-15, 0)
LIMIT_ALT_MAX_DEG == Fin(15, 0)

\* The float nearest to n / 360.0f for 2^9 <= n / 360 < 2^10, as the whole
\* number m with value m / 2^14 (a float in that binade has 14 fraction
\* bits).  n * 2^14 / 360 = n * 2^11 / 45, rounded to nearest.
F32Div360(n) == (2 * n * Pow2(11) + 45) \div 90

\* constexpr float STEPS_PER_DEG_*
STEPS_PER_DEG_AZM ==
    Fin(F32Div360(MOTOR_FULL_STEPS * MICROSTEPPING * GEAR_RATIO_AZM), -14)
STEPS_PER_DEG_ALT ==
    Fin(F32Div360(MOTOR_FULL_STEPS * MICROSTEPPING * GEAR_RATIO_ALT), -14)

Axes == {"AZM", "ALT"}
StepsPerDeg(axis) == IF axis = "AZM" THEN STEPS_PER_DEG_AZM ELSE STEPS_PER_DEG_ALT
\* The limits of an axis.
LimitMin(axis) == IF axis = "AZM" THEN LIMIT_AZM_MIN_DEG ELSE LIMIT_ALT_MIN_DEG
LimitMax(axis) == IF axis = "AZM" THEN LIMIT_AZM_MAX_DEG ELSE LIMIT_ALT_MAX_DEG

(***************************************************************************)
(* Arduino String                                                          *)
(***************************************************************************)
\* isspace(): blank, tab, line feed, vertical tab (character 11), form
\* feed, carriage return
isSpace(c) == c \in {" ", "\t", "\n", "", "\f", "\r"}
isDigit(c) == c \in {"0", "1", "2", "3", "4", "5", "6", "7", "8", "9"}
DigitVal(c) ==
    CASE c = "0" -> 0 [] c = "1" -> 1 [] c = "2" -> 2 [] c = "3" -> 3
      [] c = "4" -> 4 [] c = "5" -> 5 [] c = "6" -> 6 [] c = "7" -> 7
      [] c = "8" -> 8 [] c = "9" -> 9
DigitChar(d) ==
    CASE d = 0 -> "0" [] d = 1 -> "1" [] d = 2 -> "2" [] d = 3 -> "3"
      [] d = 4 -> "4" [] d = 5 -> "5" [] d = 6 -> "6" [] d = 7 -> "7"
      [] d = 8 -> "8" [] d = 9 -> "9"
isHexDigit(c) ==
    isDigit(c) \/ c \in {"a", "b", "c", "d", "e", "f", "A", "B", "C", "D", "E", "F"}
HexVal(c) ==
    CASE isDigit(c) -> DigitVal(c)
      [] c \in {"a", "A"} -> 10 [] c \in {"b", "B"} -> 11
      [] c \in {"c", "C"} -> 12 [] c \in {"d", "D"} -> 13
      [] c \in {"e", "E"} -> 14 [] c \in {"f", "F"} -> 15

\* String::substring(from, to): characters from..to-1 (0-based), clamped.
substring(s, from, to) ==
    LET lo == IF from > to THEN to ELSE from
        hi == IF from > to THEN from ELSE to
        h  == IF hi > Len(s) THEN Len(s) ELSE hi
    IN  IF lo >= Len(s) THEN << >> ELSE SubSeq(s, lo + 1, h)

\* String::substring(from)
substringFrom(s, from) == substring(s, from, Len(s))

\* String::startsWith(prefix)
startsWith(s, prefix) ==
    Len(s) >= Len(prefix) /\ SubSeq(s, 1, Len(prefix)) = prefix

\* String::indexOf(ch): 0-based index of the first ch, or -1.
indexOf(s, ch) ==
    IF \E i \in 1..Len(s) : s[i] = ch
    THEN (CHOOSE i \in 1..Len(s) : s[i] = ch /\ \A j \in 1..(i - 1) : s[j] # ch) - 1
    ELSE -1

\* String::remove(index, count)
remove(s, index, count) ==
    IF index >= Len(s) THEN s
    ELSE LET c == IF count > Len(s) - index THEN Len(s) - index ELSE count
         IN  SubSeq(s, 1, index) \o SubSeq(s, index + c + 1, Len(s))

\* String::trim(): drops leading and trailing white space.
RECURSIVE trimLeft(_)
trimLeft(s) == IF s # << >> /\ isSpace(Head(s)) THEN trimLeft(Tail(s)) ELSE s
RECURSIVE trimRight(_)
trimRight(s) ==
    IF s # << >> /\ isSpace(s[Len(s)]) THEN trimRight(SubSeq(s, 1, Len(s) - 1)) ELSE s
\* Faulty variant: only leading white space is dropped.
trim_LeftOnly(s) == trimLeft(s)
trim(s) == trimRight(trimLeft(s))

\* Faulty variant: nothing is deleted.
replaceWithEmpty_Keeps(s, find) == s
\* String::replace(find, ""): deletes every occurrence, scanning left to
\* right; text joined by a deletion is not scanned again.
RECURSIVE replaceWithEmpty(_, _)
replaceWithEmpty(s, find) ==
    IF s = << >> \/ find = << >> THEN s
    ELSE IF startsWith(s, find)
         THEN replaceWithEmpty(SubSeq(s, Len(find) + 1, Len(s)), find)
         ELSE <<Head(s)>> \o replaceWithEmpty(Tail(s), find)

(***************************************************************************)
(* Decimal digit strings (sequences of digits 0..9, most significant       *)
(* first) and bit strings, converted twelve bits at a time.                *)
(***************************************************************************)
RECURSIVE Digits(_)
Digits(n) == IF n < 10 THEN <<n>> ELSE Append(Digits(n \div 10), n % 10)

RECURSIVE stripLeft(_)
stripLeft(ds) == IF ds # << >> /\ Head(ds) = 0 THEN stripLeft(Tail(ds)) ELSE ds
RECURSIVE stripRight(_)
stripRight(ds) ==
    IF ds # << >> /\ ds[Len(ds)] = 0 THEN stripRight(SubSeq(ds, 1, Len(ds) - 1)) ELSE ds
RECURSIVE Zeros(_)
Zeros(n) == IF n <= 0 THEN << >> ELSE <<0>> \o Zeros(n - 1)

\* 2 * 0.ds: the fraction digits of the double; its whole part is 1 when
\* ds[1] >= 5.  Each digit takes the carry of the digit to its right.
DoubleFrac(ds) ==
    << >> \o [i \in 1..Len(ds) |->
                (2 * ds[i] + (IF i < Len(ds) /\ ds[i + 1] >= 5 THEN 1 ELSE 0)) % 10]
\* 2 * ds for a whole number
DoubleInt(ds) ==
    IF ds # << >> /\ ds[1] >= 5 THEN <<1>> \o DoubleFrac(ds) ELSE DoubleFrac(ds)
RECURSIVE TimesPow2(_, _)
TimesPow2(ds, e) == IF e = 0 THEN ds ELSE TimesPow2(DoubleInt(ds), e - 1)
\* ds \div 2 for a whole number; the remainder is ds[Len(ds)] % 2.
HalfInt(ds) ==
    << >> \o [i \in 1..Len(ds) |->
                (ds[i] + (IF i > 1 /\ ds[i - 1] % 2 = 1 THEN 10 ELSE 0)) \div 2]

\* Bits are produced in groups of GroupBits.
GroupBits == 12

\* The n low bits of the whole number ds, most significant first, and ds \div 2^n.
RECURSIVE LowBits(_, _)
LowBits(ds, n) ==
    IF n = 0 THEN [bits |-> << >>, rest |-> ds]
    ELSE LET r == LowBits(HalfInt(ds), n - 1)
         IN  [bits |-> Append(r.bits, IF ds = << >> THEN 0 ELSE ds[Len(ds)] % 2),
              rest |-> r.rest]

\* The bits of a whole number, most significant first (none for zero).
RECURSIVE IntBitsFrom(_)
IntBitsFrom(ds) ==
    IF stripLeft(ds) = << >> THEN << >>
    ELSE LET g == LowBits(stripLeft(ds), GroupBits)
         IN  IntBitsFrom(g.rest) \o g.bits
IntBits(ds) == stripLeft(IntBitsFrom(ds))

\* The first n bits of the fraction 0.ds, and the digits of 2^n * 0.ds
\* after the point.
RECURSIVE HighBits(_, _)
HighBits(ds, n) ==
    IF n = 0 THEN [bits |-> << >>, rest |-> ds]
    ELSE LET r == HighBits(stripRight(DoubleFrac(ds)), n - 1)
         IN  [bits |-> <<IF ds # << >> /\ ds[1] >= 5 THEN 1 ELSE 0>> \o r.bits,
              rest |-> r.rest]

\* The first GroupBits * n bits of the fraction 0.ds, and the digits of
\* what is left.
RECURSIVE FracBits(_, _)
FracBits(ds, n) ==
    IF n = 0 THEN [bits |-> << >>, rest |-> ds]
    ELSE LET g == HighBits(ds, GroupBits)
             r == FracBits(g.rest, n - 1)
         IN  [bits |-> g.bits \o r.bits, rest |-> r.rest]

\* The number of all-zero groups of bits that lead the fraction 0.ds (ds
\* not all zero), and the digits of what follows them.
RECURSIVE LeadingZeroGroups(_)
LeadingZeroGroups(ds) ==
    LET g == HighBits(ds, GroupBits)
    IN  IF \E i \in 1..GroupBits : g.bits[i] = 1 THEN [n |-> 0, rest |-> ds]
        ELSE LET r == LeadingZeroGroups(g.rest)
             IN  [n |-> r.n + 1, rest |-> r.rest]

RECURSIVE LeadingZeros(_)
LeadingZeros(bs) == IF bs # << >> /\ Head(bs) = 0 THEN 1 + LeadingZeros(Tail(bs)) ELSE 0

RECURSIVE BitsValue(_, _)
BitsValue(bs, acc) == IF bs = << >> THEN acc ELSE BitsValue(Tail(bs), 2 * acc + Head(bs))

(***************************************************************************)
(* (float) of the double nearest to a number given by its leading bits sig *)
(* (sig[1] = 1), by whether anything non-zero follows them (more) and by   *)
(* top, where the number is in [2^(top-1), 2^top): the number is rounded   *)
(* to the 53 bits of a double, then to a float.                            *)
(***************************************************************************)
\* A: bits 1..24 of the double; B: its bits 25..53, 2^29 when their
\* rounding has carried.  The float's 24 bits are cut from them.
doubleToFloat(sign, A, B, top) ==
    Round(sign, A * 32 + (B \div Pow2(24)), top - 29, B % Pow2(24) # 0)
\* bits: at least 54 leading bits of the number; bit 53 is rounded up when
\* bit 54 is set and either something follows it or bit 53 is odd.
doubleOf(sign, bits, more, top) ==
    doubleToFloat(sign, BitsValue(SubSeq(bits, 1, 24), 0),
                  BitsValue(SubSeq(bits, 25, 53), 0)
                  + (IF bits[54] = 1
                        /\ (more \/ bits[53] = 1 \/ \E i \in 55..Len(bits) : bits[i] = 1)
                     THEN 1 ELSE 0),
                  top)
FloatOfBits(sign, sig, more, top) ==
    doubleOf(sign, IF Len(sig) >= 54 THEN sig ELSE sig \o Zeros(54 - Len(sig)), more, top)

\* The whole part and the fraction digits of 0.D * 10^pt.
decimalWhole(D, pt) ==
    IF pt <= 0 THEN << >>
    ELSE IF pt >= Len(D) THEN D \o Zeros(pt - Len(D))
    ELSE SubSeq(D, 1, pt)
decimalFrac(D, pt) ==
    IF pt <= 0 THEN Zeros(-pt) \o D
    ELSE IF pt >= Len(D) THEN << >>
    ELSE SubSeq(D, pt + 1, Len(D))

\* A fraction whose bits r follow n all-zero groups.
floatOfFracBits(sign, r, n) ==
    FloatOfBits(sign, SubSeq(r.bits, LeadingZeros(r.bits) + 1, Len(r.bits)),
                r.rest # << >>, -(GroupBits * n + LeadingZeros(r.bits)))
\* z: the fraction without its leading all-zero groups
floatOfFrac(sign, z) == floatOfFracBits(sign, FracBits(z.rest, 6), z.n)
\* A whole part of fewer than 54 bits ib, followed by the fraction bits r.
floatOfWholeAndFrac(sign, ib, r) ==
    FloatOfBits(sign, ib \o r.bits, r.rest # << >>, Len(ib))
\* The number with whole part bits ib and fraction digits F.
floatOfParts(sign, ib, F) ==
    IF Len(ib) >= 54 THEN FloatOfBits(sign, ib, F # << >>, Len(ib))
    ELSE IF ib # << >> THEN floatOfWholeAndFrac(sign, ib, FracBits(F, 5))
    ELSE floatOfFrac(sign, LeadingZeroGroups(F))

\* The decimal 0.D * 10^pt, D a digit string without leading or trailing zeros.
FloatOfDecimal(sign, D, pt) ==
    IF D = << >> THEN FZero
    ELSE IF pt >= 40 THEN Inf(sign)                \* 10^39 and more
    ELSE IF pt <= -46 THEN FZero                   \* below 10^-46 < 2^-150
    ELSE floatOfParts(sign, IntBits(decimalWhole(D, pt)), decimalFrac(D, pt))

RECURSIVE HexBits(_)
HexBits(s) ==
    IF s = << >> THEN << >>
    ELSE LET v == HexVal(Head(s))
         IN  <<v \div 8, (v \div 4) % 2, (v \div 2) % 2, v % 2>> \o HexBits(Tail(s))
\* The number whose bits are all, with the point after bit top.
hexBitsToFloat(sign, all, top) ==
    IF LeadingZeros(all) = Len(all) THEN FZero
    ELSE FloatOfBits(sign, SubSeq(all, LeadingZeros(all) + 1, Len(all)), FALSE,
                     top - LeadingZeros(all))
\* The hexadecimal I.F * 2^p
FloatOfHex(sign, I, F, p) ==
    hexBitsToFloat(sign, HexBits(I) \o HexBits(F), 4 * Len(I) + p)

(***************************************************************************)
(* String::toFloat(): atof, then the conversion of its double to float.    *)
(* atof reads the longest prefix that is white space, an optional sign and *)
(* then a decimal number (digits with an optional '.', at least one digit, *)
(* and an optional exponent e[+-]digits), a hexadecimal number (0x, hex    *)
(* digits with an optional '.', at least one digit, and an optional        *)
(* exponent p[+-]digits), "inf" or "nan" in either case; it yields 0 when  *)
(* there is none.  The float's zero carries no sign here: the sketch       *)
(* never tells -0.0 from 0.0.                                              *)
(***************************************************************************)
RECURSIVE digitRun(_)
digitRun(s) == IF s # << >> /\ isDigit(Head(s)) THEN 1 + digitRun(Tail(s)) ELSE 0
RECURSIVE hexRun(_)
hexRun(s) == IF s # << >> /\ isHexDigit(Head(s)) THEN 1 + hexRun(Tail(s)) ELSE 0

\* An exponent that, after a mantissa of n digits, gives the same number as
\* every exponent beyond it: the mantissa is below 10^n (16^n) and, unless
\* it is 0, not below 10^-n (16^-n), so its product by 10^(4n + 200) or
\* 2^(4n + 200) is above every float and its quotient below every float.
exponentHold(n) == 4 * n + 200
\* The value of a digit string, held at hold.
RECURSIVE intValue(_, _, _)
intValue(s, acc, hold) ==
    IF s = << >> THEN acc
    ELSE LET v == 10 * acc + DigitVal(Head(s))
         IN  intValue(Tail(s), IF v > hold THEN hold ELSE v, hold)

\* The exponent that follows a mantissa of n digits: the marker, an
\* optional sign and at least one digit; 0 when there is none.
exponentDigits(u, n) == intValue(SubSeq(u, 1, digitRun(u)), 0, exponentHold(n))
exponentOf(s, markers, n) ==
    IF s = << >> \/ ~(Head(s) \in markers) THEN 0
    ELSE IF Len(s) >= 2 /\ s[2] = "-" THEN -exponentDigits(SubSeq(s, 3, Len(s)), n)
    ELSE IF Len(s) >= 2 /\ s[2] = "+" THEN exponentDigits(SubSeq(s, 3, Len(s)), n)
    ELSE exponentDigits(Tail(s), n)

RECURSIVE digitVals(_)
digitVals(s) == IF s = << >> THEN << >> ELSE <<DigitVal(Head(s))>> \o digitVals(Tail(s))

isWord(s, w1, w2) ==
    Len(s) >= 3 /\ \A i \in 1..3 : s[i] = w1[i] \/ s[i] = w2[i]

\* The digits that lead s: hexadecimal ones after 0x, decimal ones otherwise.
scanRun(s, hex) == IF hex THEN hexRun(s) ELSE digitRun(s)
\* The text after the whole digits: a point may lead it.
hasPoint(s) == s # << >> /\ Head(s) = "."
afterPoint(s) == IF hasPoint(s) THEN Tail(s) ELSE s

\* A decimal number: all the digits of its mantissa, and the power of ten
\* pt of 0.all.
atofDecimal(sign, all, pt) ==
    FloatOfDecimal(sign, stripRight(stripLeft(all)), pt - (Len(all) - Len(stripLeft(all))))
\* whole digits I, fraction digits F and the text sE after them; without a
\* digit no number is read.
atofExp(sign, I, F, sE, hex) ==
    IF I = << >> /\ F = << >> THEN FZero
    ELSE IF hex THEN FloatOfHex(sign, I, F, exponentOf(sE, {"p", "P"}, Len(I) + Len(F)))
    ELSE atofDecimal(sign, digitVals(I \o F), Len(I) + exponentOf(sE, {"e", "E"}, Len(I) + Len(F)))
\* s3: the text after the whole digits I and the point, if there is one;
\* nf: the number of fraction digits
atofFrac(sign, I, s3, nf, hex) ==
    atofExp(sign, I, SubSeq(s3, 1, nf), SubSeq(s3, nf + 1, Len(s3)), hex)
\* s2: the text after the whole digits I
atofPoint(sign, I, s2, hex) ==
    atofFrac(sign, I, afterPoint(s2),
             IF hasPoint(s2) THEN scanRun(Tail(s2), hex) ELSE 0, hex)
\* s: the text of the mantissa and what follows it (for a hexadecimal number,
\* the text after 0x: without a hex digit there, only the 0 is read)
atofNumber(sign, s, hex) ==
    atofPoint(sign, SubSeq(s, 1, scanRun(s, hex)),
              SubSeq(s, scanRun(s, hex) + 1, Len(s)), hex)
hasHexMark(s) == Len(s) >= 2 /\ s[1] = "0" /\ s[2] \in {"x", "X"}
\* s1: the text after the sign
atofBody(sign, s1) ==
    IF isWord(s1, <<"i", "n", "f">>, <<"I", "N", "F">>) THEN Inf(sign)
    ELSE IF isWord(s1, <<"n", "a", "n">>, <<"N", "A", "N">>) THEN NaN
    ELSE atofNumber(sign, IF hasHexMark(s1) THEN SubSeq(s1, 3, Len(s1)) ELSE s1,
                    hasHexMark(s1))
\* s0: the text after the white space
atofSigned(s0) ==
    atofBody(IF s0 # << >> /\ Head(s0) = "-" THEN -1 ELSE 1,
             IF s0 # << >> /\ Head(s0) \in {"+", "-"} THEN Tail(s0) ELSE s0)

toFloat(str) == atofSigned(trimLeft(str))

(***************************************************************************)
(* Serial.print(float, 3): Print::printFloat converts to double, writes    *)
(* "nan", "inf" (for either infinity) or "ovf" (beyond 4294967040), else   *)
(* the sign, then adds the double 0.5/10/10/10 to the magnitude and writes *)
(* the whole part and three digits cut from the sum.  That is the          *)
(* magnitude rounded to thousandths, except half way between two           *)
(* thousandths (the odd multiples of 1/16), where the double sum decides.  *)
(***************************************************************************)
\* The double 0.5/10/10/10 is R0 / 2^63, R0 = R0_HI * 2^30 + R0_LO; it is
\* above 0.0005 = (R0 - 1 + 0.904) / 2^63.
R0_HI == 4294967
R0_LO == 317827580

\* The low part of R0 with its s low bits rounded away (to nearest, ties to
\* even): q and r are the quotient and the remainder of R0_LO by 2^s.
tieKept(s, q, r) ==
    (IF r > Pow2(s - 1)
        \/ (r = Pow2(s - 1) /\ (IF s = 30 THEN R0_HI % 2 = 1 ELSE q % 2 = 1))
     THEN q + 1 ELSE q) * Pow2(s)
\* For an odd multiple x of 1/16 in [2^k, 2^(k+1)): whether the upper of the
\* two thousandths is written.  The sum x + 0.5/10/10/10 keeps the bits of
\* the addend from 2^(k-52) on (k + 11 bits of R0 are dropped, 10..30),
\* rounded to nearest (ties to even), and the upper thousandth is written
\* when that is above 0.0005.  Below 1/2 the digits are cut from products
\* by 10.0 that are themselves rounded, and the four ties there (1/16,
\* 3/16, 5/16, 7/16) come out at the lower thousandth.
tieWritesUpper(k) ==
    /\ k >= -1
    /\ tieKept(k + 11, R0_LO \div Pow2(k + 11), R0_LO % Pow2(k + 11)) > R0_LO - 1

RECURSIVE digitChars(_)
digitChars(ds) ==
    IF ds = << >> THEN << >> ELSE <<DigitChar(Head(ds))>> \o digitChars(Tail(ds))

\* The text of a magnitude given by the digits of its whole part and its
\* thousandths (below 1000).
writeFixed(neg, whole, frac) ==
    (IF neg THEN <<"-">> ELSE << >>)
    \o digitChars(whole)
    \o <<".">>
    \o digitChars(<<frac \div 100, (frac \div 10) % 10, frac % 10>>)

\* 1000 * fm / 2^n = c / 2^(n-3) with c = 125 * fm, to nearest, for a float
\* with n > 0 fraction bits and leading bit 2^(top-1).
thousandths(c, n, top) ==
    IF n <= 3 THEN c * Pow2(3 - n)
    ELSE IF n >= 35 THEN 0                          \* x < 2^-11 < 0.0005
    ELSE IF n = 34 THEN (IF c >= Pow2(30) THEN 1 ELSE 0)
    ELSE IF n = 4 /\ ~tieWritesUpper(top - 1) THEN c \div 2
    ELSE (c \div Pow2(n - 3)) + (IF c % Pow2(n - 3) >= Pow2(n - 4) THEN 1 ELSE 0)

\* ip: the whole part; th: the thousandths, up to 1000
printRounded(neg, ip, th) ==
    writeFixed(neg, Digits(IF th = 1000 THEN ip + 1 ELSE ip), IF th = 1000 THEN 0 ELSE th)
\* a: the magnitude's odd whole number; n > 0: its fraction bits
printFraction(neg, a, n, top) ==
    printRounded(neg,
                 IF n > 24 THEN 0 ELSE a \div Pow2(n),
                 thousandths(125 * (IF n > 24 THEN a ELSE a % Pow2(n)), n, top))

printFloat3(x) ==
    IF IsNaN(x) THEN <<"n", "a", "n">>
    ELSE IF x.cls = "inf" THEN <<"i", "n", "f">>
    ELSE IF Top(x) > 32 THEN <<"o", "v", "f">>
    ELSE IF x.e >= 0 THEN writeFixed(x.m < 0, TimesPow2(Digits(Abs(x.m)), x.e), 0)
    ELSE printFraction(x.m < 0, Abs(x.m), -x.e, Top(x))

(***************************************************************************)
(* Text constants of the sketch                                            *)
(***************************************************************************)
T_Hold == <<"!">>
T_Resume == <<"~">>
T_Unlock == <<"$", "X">>
T_JogA == <<"$", "J", "=">>
T_JogB == <<"J", "=">>
T_G91 == <<"G", "9", "1">>
T_G53 == <<"G", "5", "3">>
T_G21 == <<"G", "2", "1">>
T_AZM == <<"A", "Z", "M", ":">>
T_ALT == <<"A", "L", "T", ":">>
T_RST == <<"R", "S", "T">>
T_HOME == <<"H", "O", "M", "E">>
T_POS == <<"P", "O", "S", "?">>
T_STA == <<"S", "T", "A", "?">>

(***************************************************************************)
(* Lines the host sends.  Angles are multiples of 2^-11 degrees (Grid):    *)
(* 0.00048828125 = 1 Grid (rounds to 0 steps on both axes), 0.0009765625   *)
(* = 2 Grid (1 step), 0.00146484375 = 3 Grid (1 step), 0.001953125 = 4     *)
(* Grid (2 steps), 20.0 is beyond the soft limits.                         *)
(***************************************************************************)
\* !
L_Hold == <<"!">>
\* ~
L_Resume == <<"~">>
\* ?
L_Poll == <<"?">>
\* $X
L_Unlock == <<"$", "X">>
\* RST
L_RST == <<"R", "S", "T">>
\* HOME
L_HOME == <<"H", "O", "M", "E">>
\* POS?
L_POS == <<"P", "O", "S", "?">>
\* STA?
L_STA == <<"S", "T", "A", "?">>
\* M18
L_Unknown == <<"M", "1", "8">>
\* $J=G53X0.001953125F100
L_AbsX4 == <<"$", "J", "=", "G", "5", "3", "X", "0", ".", "0", "0", "1", "9", "5", "3", "1", "2", "5", "F", "1", "0", "0">>
\* $J=G53Y-0.00146484375F100
L_AbsYm3 == <<"$", "J", "=", "G", "5", "3", "Y", "-", "0", ".", "0", "0", "1", "4", "6", "4", "8", "4", "3", "7", "5", "F", "1", "0", "0">>
\* J=G53X0.00048828125F100
L_AbsX1 == <<"J", "=", "G", "5", "3", "X", "0", ".", "0", "0", "0", "4", "8", "8", "2", "8", "1", "2", "5", "F", "1", "0", "0">>
\* J=G53Y20.0F100
L_AbsY20 == <<"J", "=", "G", "5", "3", "Y", "2", "0", ".", "0", "F", "1", "0", "0">>
\* $J=G53X-20.0F100
L_AbsXm20 == <<"$", "J", "=", "G", "5", "3", "X", "-", "2", "0", ".", "0", "F", "1", "0", "0">>
\* $J=G91G21X0.001953125F300
L_RelX4 == <<"$", "J", "=", "G", "9", "1", "G", "2", "1", "X", "0", ".", "0", "0", "1", "9", "5", "3", "1", "2", "5", "F", "3", "0", "0">>
\* $J=G91G21Y-0.0009765625F200
L_RelYm2 == <<"$", "J", "=", "G", "9", "1", "G", "2", "1", "Y", "-", "0", ".", "0", "0", "0", "9", "7", "6", "5", "6", "2", "5", "F", "2", "0", "0">>
\* J=G91X20.0F200
L_RelX20 == <<"J", "=", "G", "9", "1", "X", "2", "0", ".", "0", "F", "2", "0", "0">>
\* $J=G91G21Y-20.0F200
L_RelYm20 == <<"$", "J", "=", "G", "9", "1", "G", "2", "1", "Y", "-", "2", "0", ".", "0", "F", "2", "0", "0">>
\* AZM:-0.00146484375
L_AzmM3 == <<"A", "Z", "M", ":", "-", "0", ".", "0", "0", "1", "4", "6", "4", "8", "4", "3", "7", "5">>
\* ALT:+0.001953125
L_Alt4 == <<"A", "L", "T", ":", "+", "0", ".", "0", "0", "1", "9", "5", "3", "1", "2", "5">>
\* AZM:20.0
L_Azm20 == <<"A", "Z", "M", ":", "2", "0", ".", "0">>
\* ALT:-20.0
L_AltM20 == <<"A", "L", "T", ":", "-", "2", "0", ".", "0">>

HostLines ==
    {L_Hold, L_Resume, L_Poll, L_Unlock, L_RST,
     L_HOME, L_POS, L_STA, L_Unknown, L_AbsX4,
     L_AbsYm3, L_AbsX1, L_AbsY20, L_AbsXm20, L_RelX4,
     L_RelYm2, L_RelX20, L_RelYm20, L_AzmM3, L_Alt4,
     L_Azm20, L_AltM20}

(***************************************************************************)
(* A second repertoire of host lines: empty and blank lines, unrecognized  *)
(* lines, jog lines that break the grammar, a legacy jog of zero, and      *)
(* moves of one step.                                                      *)
(***************************************************************************)
\* an empty line
L_Empty == << >>
\* a line of white space only: a blank and a carriage return
L_Blank == <<" ", "\r">>
\* rst
L_Lower == <<"r", "s", "t">>
\* ?M18
L_PollJunk == <<"?", "M", "1", "8">>
\* $J=X0.0009765625F100
L_JogNoMode == <<"$", "J", "=", "X", "0", ".", "0", "0", "0", "9", "7", "6", "5", "6", "2", "5", "F", "1", "0", "0">>
\* $J=G91X0.0009765625
L_JogNoF == <<"$", "J", "=", "G", "9", "1", "X", "0", ".", "0", "0", "0", "9", "7", "6", "5", "6", "2", "5">>
\* J=G53Z0.0009765625F100
L_JogBadAxis == <<"J", "=", "G", "5", "3", "Z", "0", ".", "0", "0", "0", "9", "7", "6", "5", "6", "2", "5", "F", "1", "0", "0">>
\* AZM:0
L_Azm0 == <<"A", "Z", "M", ":", "0">>
\* ALT:0.0009765625
L_Alt2 == <<"A", "L", "T", ":", "0", ".", "0", "0", "0", "9", "7", "6", "5", "6", "2", "5">>
\* $J=G53X0.0009765625F100
L_AbsX2 == <<"$", "J", "=", "G", "5", "3", "X", "0", ".", "0", "0", "0", "9", "7", "6", "5", "6", "2", "5", "F", "1", "0", "0">>

HostLinesB ==
    {L_Empty, L_Blank, L_Hold, L_Poll, L_Unknown, L_Lower, L_PollJunk,
     L_JogNoMode, L_JogNoF, L_JogBadAxis, L_Azm0, L_Alt2, L_AbsX2, L_AbsX1,
     L_AbsYm3}

(***************************************************************************)
(* A third repertoire: a long move (5.0 degrees of azimuth, 4444 pulses)   *)
(* next to short moves and refused moves on either axis.                   *)
(***************************************************************************)
\* $J=G53X5.0F100
L_AbsX5 == <<"$", "J", "=", "G", "5", "3", "X", "5", ".", "0", "F", "1", "0", "0">>

HostLinesC == {L_AbsX5, L_RelYm20, L_Alt4, L_Azm20, L_AbsYm3, L_Poll}

(***************************************************************************)
(* A fourth repertoire: every command with white space before it, after it *)
(* or both (<SP> a blank, <TAB> a tab, <CR> a carriage return).            *)
(***************************************************************************)
\* <SP>?
L_PadPollLead == <<" ", "?">>
\* ?<CR>
L_PadPollTrail == <<"?", "\r">>
\* RST<CR>
L_PadRST == <<"R", "S", "T", "\r">>
\* <SP>HOME
L_PadHOME == <<" ", "H", "O", "M", "E">>
\* <TAB>!<CR>
L_PadHold == <<"\t", "!", "\r">>
\* <SP>~<SP>
L_PadResume == <<" ", "~", " ">>
\* <SP>$X<CR>
L_PadUnlock == <<" ", "$", "X", "\r">>
\* POS?<SP>
L_PadPOS == <<"P", "O", "S", "?", " ">>
\* <SP>STA?
L_PadSTA == <<" ", "S", "T", "A", "?">>
\* <SP>$J=G53X0.0009765625F100<CR>
L_PadAbsX2 == <<" ", "$", "J", "=", "G", "5", "3", "X", "0", ".", "0", "0", "0", "9", "7", "6", "5", "6", "2", "5", "F", "1", "0", "0", "\r">>
\* <TAB>$J=G91G21Y-0.0009765625F200<SP>
L_PadRelYm2 == <<"\t", "$", "J", "=", "G", "9", "1", "G", "2", "1", "Y", "-", "0", ".", "0", "0", "0", "9", "7", "6", "5", "6", "2", "5", "F", "2", "0", "0", " ">>
\* <SP>ALT:0.0009765625<SP>
L_PadAlt2 == <<" ", "A", "L", "T", ":", "0", ".", "0", "0", "0", "9", "7", "6", "5", "6", "2", "5", " ">>
\* AZM:-0.00146484375<CR>
L_PadAzmM3 == <<"A", "Z", "M", ":", "-", "0", ".", "0", "0", "1", "4", "6", "4", "8", "4", "3", "7", "5", "\r">>

HostLinesD ==
    {L_PadPollLead, L_PadPollTrail, L_PadRST, L_PadHOME,
     L_PadHold, L_PadResume, L_PadUnlock, L_PadPOS,
     L_PadSTA, L_PadAbsX2, L_PadRelYm2, L_PadAlt2,
     L_PadAzmM3}

(***************************************************************************)
(* A fifth repertoire: the same jog under either prefix, with and without  *)
(* the unit marker G21 and with different feed rates; relative jogs of     *)
(* less than half a step; jogs refused for their target, their axis        *)
(* letter, a missing mode marker or a missing F.                           *)
(***************************************************************************)
\* $J=G91G21X0.0009765625F100
L_RelX2a == <<"$", "J", "=", "G", "9", "1", "G", "2", "1", "X", "0", ".", "0", "0", "0", "9", "7", "6", "5", "6", "2", "5", "F", "1", "0", "0">>
\* $J=G91X0.0009765625F100
L_RelX2b == <<"$", "J", "=", "G", "9", "1", "X", "0", ".", "0", "0", "0", "9", "7", "6", "5", "6", "2", "5", "F", "1", "0", "0">>
\* J=G91G21X0.0009765625F100
L_RelX2c == <<"J", "=", "G", "9", "1", "G", "2", "1", "X", "0", ".", "0", "0", "0", "9", "7", "6", "5", "6", "2", "5", "F", "1", "0", "0">>
\* J=G91X0.0009765625F100
L_RelX2d == <<"J", "=", "G", "9", "1", "X", "0", ".", "0", "0", "0", "9", "7", "6", "5", "6", "2", "5", "F", "1", "0", "0">>
\* $J=G53G21Y-0.00146484375F100
L_AbsYm3a == <<"$", "J", "=", "G", "5", "3", "G", "2", "1", "Y", "-", "0", ".", "0", "0", "1", "4", "6", "4", "8", "4", "3", "7", "5", "F", "1", "0", "0">>
\* J=G53G21Y-0.00146484375F100
L_AbsYm3c == <<"J", "=", "G", "5", "3", "G", "2", "1", "Y", "-", "0", ".", "0", "0", "1", "4", "6", "4", "8", "4", "3", "7", "5", "F", "1", "0", "0">>
\* J=G53Y-0.00146484375F100
L_AbsYm3d == <<"J", "=", "G", "5", "3", "Y", "-", "0", ".", "0", "0", "1", "4", "6", "4", "8", "4", "3", "7", "5", "F", "1", "0", "0">>
\* $J=G91X0.0009765625F9999.5
L_RelX2F == <<"$", "J", "=", "G", "9", "1", "X", "0", ".", "0", "0", "0", "9", "7", "6", "5", "6", "2", "5", "F", "9", "9", "9", "9", ".", "5">>
\* $J=G91X0.0009765625F
L_RelX2F0 == <<"$", "J", "=", "G", "9", "1", "X", "0", ".", "0", "0", "0", "9", "7", "6", "5", "6", "2", "5", "F">>
\* $J=G53Y-0.00146484375F1
L_AbsYm3F == <<"$", "J", "=", "G", "5", "3", "Y", "-", "0", ".", "0", "0", "1", "4", "6", "4", "8", "4", "3", "7", "5", "F", "1">>
\* J=G91X20.0F1
L_RelX20F == <<"J", "=", "G", "9", "1", "X", "2", "0", ".", "0", "F", "1">>
\* $J=G91X0.00048828125F100
L_RelX1 == <<"$", "J", "=", "G", "9", "1", "X", "0", ".", "0", "0", "0", "4", "8", "8", "2", "8", "1", "2", "5", "F", "1", "0", "0">>
\* J=G91G21Y-0.00048828125F100
L_RelYm1 == <<"J", "=", "G", "9", "1", "G", "2", "1", "Y", "-", "0", ".", "0", "0", "0", "4", "8", "8", "2", "8", "1", "2", "5", "F", "1", "0", "0">>
\* $J=G91X0F100
L_RelX0 == <<"$", "J", "=", "G", "9", "1", "X", "0", "F", "1", "0", "0">>
\* AZM:0.00048828125
L_Azm1 == <<"A", "Z", "M", ":", "0", ".", "0", "0", "0", "4", "8", "8", "2", "8", "1", "2", "5">>

HostLinesE ==
    {L_RelX2a, L_RelX2b, L_RelX2c, L_RelX2d, L_AbsYm3a,
     L_AbsYm3c, L_AbsYm3d, L_RelX2F, L_RelX2F0, L_AbsYm3F,
     L_RelX20F, L_RelX1, L_RelYm1, L_RelX0, L_Azm1,
     L_AbsYm3, L_RelX20, L_AbsY20, L_JogBadAxis, L_JogNoMode,
     L_JogNoF, L_Azm0, L_Hold, L_Poll}

(***************************************************************************)
(* A sixth repertoire: an absolute jog to the upper soft limit of azimuth  *)
(* after a legacy jog by -1.00000286102294921875 degrees, which is         *)
(* -(1 + 3 * 2^-20) and a float.  From there the way to 15.0 is            *)
(* 16 + 3 * 2^-20 degrees, which is not a float: target - posDegAZM is     *)
(* rounded to 16 + 4 * 2^-20.                                              *)
(***************************************************************************)
\* AZM:-1.00000286102294921875
L_AzmFine == <<"A", "Z", "M", ":", "-", "1", ".", "0", "0", "0", "0", "0", "2", "8", "6", "1", "0", "2", "2", "9", "4", "9", "2", "1", "8", "7", "5">>
\* $J=G53X15.0F100
L_AbsX15 == <<"$", "J", "=", "G", "5", "3", "X", "1", "5", ".", "0", "F", "1", "0", "0">>

HostLinesF == {L_AzmFine, L_AbsX15, L_Azm0, L_RelX0, L_AbsYm3, L_Poll}

(***************************************************************************)
(* A seventh repertoire: jogs to the soft limits and just beyond them, and  *)
(* a jog by a value that is not a number.  15.00000095367431640625 = 15 +  *)
(* 2^-20 is the float next above 15; atof reads nan as a NaN.  -2415919    *)
(* degrees of azimuth are -2^31 steps, the least long.                     *)
(***************************************************************************)
\* AZM:-2415919.0
L_AzmLongMin == <<"A", "Z", "M", ":", "-", "2", "4", "1", "5", "9", "1", "9", ".", "0">>
\* AZM:nan
L_AzmNaN == <<"A", "Z", "M", ":", "n", "a", "n">>
\* $J=G53X15.00000095367431640625F100
L_AbsX15up == <<"$", "J", "=", "G", "5", "3", "X", "1", "5", ".", "0", "0", "0", "0", "0", "0", "9", "5", "3", "6", "7", "4", "3", "1", "6", "4", "0", "6", "2", "5", "F", "1", "0", "0">>
\* AZM:-15.0
L_AzmM15 == <<"A", "Z", "M", ":", "-", "1", "5", ".", "0">>
\* AZM:-0.00048828125
L_AzmM1 == <<"A", "Z", "M", ":", "-", "0", ".", "0", "0", "0", "4", "8", "8", "2", "8", "1", "2", "5">>
\* J=G91Y-15.0F100
L_RelYm15 == <<"J", "=", "G", "9", "1", "Y", "-", "1", "5", ".", "0", "F", "1", "0", "0">>

HostLinesG ==
    {L_AbsX15, L_AbsX15up, L_AzmM15, L_AzmM1, L_RelX1, L_RelYm15, L_AzmNaN,
     L_AzmLongMin, L_Poll}

(***************************************************************************)
(* An eighth repertoire: every command that is not a move (the poll, hold, *)
(* resume, unlock, the position queries, empty, blank and unrecognized     *)
(* lines, a poll with text after it) next to a jog of each form, RST and   *)
(* HOME.                                                                   *)
(***************************************************************************)
HostLinesH ==
    {L_Poll, L_Hold, L_Resume, L_Unlock, L_POS, L_STA, L_Empty, L_Blank,
     L_Unknown, L_PollJunk, L_AbsX4, L_RelYm2, L_AzmM3, L_RST, L_HOME}

(***************************************************************************)
(* A ninth repertoire: legacy jogs next to the relative jogs by the same   *)
(* angle, among them 0.0005624294281005859375 = 2359 * 2^-22 degrees       *)
(* (0.49994 azimuth step).  From 8 degrees on, where floats are 2^-20      *)
(* degrees apart, position + 2359 * 2^-22 is not a float and rounds to     *)
(* position + 2360 * 2^-22 (0.50015 step).                                 *)
(***************************************************************************)
\* AZM:8
L_Azm8 == <<"A", "Z", "M", ":", "8">>
\* AZM:0.0005624294281005859375
L_AzmFrac == <<"A", "Z", "M", ":", "0", ".", "0", "0", "0", "5", "6", "2", "4", "2", "9", "4", "2", "8", "1", "0", "0", "5", "8", "5", "9", "3", "7", "5">>
\* $J=G91X0.0005624294281005859375F100
L_RelXFrac == <<"$", "J", "=", "G", "9", "1", "X", "0", ".", "0", "0", "0", "5", "6", "2", "4", "2", "9", "4", "2", "8", "1", "0", "0", "5", "8", "5", "9", "3", "7", "5", "F", "1", "0", "0">>
\* $J=G91X-0.00146484375F100
L_RelXm3 == <<"$", "J", "=", "G", "9", "1", "X", "-", "0", ".", "0", "0", "1", "4", "6", "4", "8", "4", "3", "7", "5", "F", "1", "0", "0">>
\* ALT:-0.0009765625
L_AltM2 == <<"A", "L", "T", ":", "-", "0", ".", "0", "0", "0", "9", "7", "6", "5", "6", "2", "5">>

HostLinesI ==
    {L_Azm8, L_AzmFrac, L_RelXFrac, L_AzmM3, L_RelXm3, L_AltM2, L_RelYm2,
     L_Azm1, L_RelX1, L_Azm20, L_RelX20, L_Hold, L_Poll}

(***************************************************************************)
(* A tenth repertoire: absolute jogs to decimal values that are not floats *)
(* of the 2^-11 grid, across a long distance.  atof reads 0.0035 as the    *)
(* float 0.003500000108033418655395507812 = 7516193 * 2^-31 ; floats       *)
(* between 8 and 16 are 2^-20 apart.                                       *)
(***************************************************************************)
\* $J=G53X10F100
L_AbsX10 == <<"$", "J", "=", "G", "5", "3", "X", "1", "0", "F", "1", "0", "0">>
\* $J=G53X0.0035F100
L_AbsX0035 == <<"$", "J", "=", "G", "5", "3", "X", "0", ".", "0", "0", "3", "5", "F", "1", "0", "0">>

HostLinesJ == {L_AbsX10, L_AbsX0035, L_Poll}

(***************************************************************************)
(* State                                                                   *)
(***************************************************************************)
VARIABLES
    posDegAZM,   \* float posDegAZM
    posDegALT,   \* float posDegALT
    feedHold,    \* volatile bool feedHold
    pinDir,      \* level last written to each axis's DIR pin
    rx,          \* bytes received from the host and not yet read
    pc,          \* "loop": at the top of loop(); "step": in stepAxis's for loop
    frame,       \* the active call of stepAxis (its arguments and locals)
    out,         \* what the current pass of loop() has written and pulsed so far
    cmd,         \* the trimmed line the current pass of loop() handles
    pre,         \* how that pass took its input ("poll": the '?' peek, "line":
                 \* a line read), and the positions and hold flag when it began
    pulseNet,    \* per axis: pulses with DIR HIGH minus pulses with DIR LOW since boot or RST
    moveLog,     \* per axis, since boot or RST: the number of calls of stepAxis that ran
                 \* their for loop with the hold flag clear, and the sum of the deltas
                 \* of the calls whose loop the flag cut short
    rxDuringMove, \* bytes received since the current call of stepAxis entered its for loop
    sent         \* number of lines the host has sent

vars == <<posDegAZM, posDegALT, feedHold, pinDir, rx, pc, frame, out, cmd, pre,
          pulseNet, moveLog, rxDuringMove, sent>>

\* Number of lines the host sends in one run.
MaxCmds == 3
\* Number of lines the host sends in one run from the second repertoire.
MaxCmdsB == 3
\* Number of lines the host sends in one run from the third repertoire.
MaxCmdsC == 2
\* Number of lines the host sends in one run from the fourth repertoire.
MaxCmdsD == 3
\* Number of lines the host sends in one run from the fifth repertoire.
MaxCmdsE == 3
\* Number of lines the host sends in one run from the sixth repertoire.
MaxCmdsF == 3
\* Number of lines the host sends in one run from the seventh repertoire.
MaxCmdsG == 2
\* Number of lines the host sends in one run from the eighth repertoire.
MaxCmdsH == 3
\* Number of lines the host sends in one run from the ninth repertoire.
MaxCmdsI == 2
\* Number of lines the host sends in one run from the tenth repertoire.
MaxCmdsJ == 3
\* Number of pulses of one call of stepAxis through which a run of the
\* seventh repertoire is followed: above the longest move between the soft
\* limits (30 degrees of azimuth, 26667 pulses).  The moves that are longer
\* have a step count of LONG_MAX or 2^31, where lroundf or labs is undefined.
MaxPulses == 30000

NoMoves == [a \in Axes |-> [clear |-> 0, held |-> FZero]]
NoFrame ==
    [axis |-> "none", deltaDeg |-> FZero, totalSteps |-> 0, test |-> "lt", s |-> 0,
     ret |-> "none"]

(***************************************************************************)
(* What a pass of loop() writes: text lines, status frames, step pulses.   *)
(***************************************************************************)
Line(txt) == [k |-> "line", txt |-> txt]
\* <state|MPos:x,y,0|
StatusFrame(state, az, alt) ==
    [k |-> "status", state |-> state, x |-> printFloat3(az), y |-> printFloat3(alt)]
\* POS:AZM=x,ALT=y
PosLine(az, alt) == [k |-> "pos", x |-> printFloat3(az), y |-> printFloat3(alt)]
\* n consecutive pulses on an axis's STEP pin with its DIR pin at level dir
Pulses(axis, dir, n) == [k |-> "pulses", axis |-> axis, dir |-> dir, n |-> n]

\* One more pulse: digitalWrite(pinStep, HIGH); digitalWrite(pinStep, LOW).
AddPulse(o, axis, dir) ==
    IF o # << >> /\ o[Len(o)].k = "pulses" /\ o[Len(o)].axis = axis /\ o[Len(o)].dir = dir
    THEN [o EXCEPT ![Len(o)].n = @ + 1]
    ELSE Append(o, Pulses(axis, dir, 1))

(***************************************************************************)
(* The controller's data while a pass of loop() runs: m.az, m.alt (the     *)
(* positions), m.hold, m.dir, m.out, and where the pass stands (m.pc,      *)
(* m.frame).  m.ub holds what the calls of lroundf in this pass yield      *)
(* where the result is undefined, one outcome for each such call; m.ua     *)
(* holds the same for the calls of labs.                                   *)
(***************************************************************************)
Mach(az, alt, hold, dir, o) ==
    [az |-> az, alt |-> alt, hold |-> hold, dir |-> dir, out |-> o,
     pc |-> "loop", frame |-> NoFrame, ub |-> <<0, 0>>, ua |-> <<"lt", "lt">>]

Pos(m, axis) == IF axis = "AZM" THEN m.az ELSE m.alt
\* Faulty variant: the azimuth position is written whichever axis has moved.
SetPos_AlwaysAZM(m, axis, v) == [m EXCEPT !.az = v]
SetPos(m, axis, v) == IF axis = "AZM" THEN [m EXCEPT !.az = v] ELSE [m EXCEPT !.alt = v]

println(m, txt) == [m EXCEPT !.out = Append(@, Line(txt))]
sendStatus(m, state) == [m EXCEPT !.out = Append(@, StatusFrame(state, m.az, m.alt))]
\* feedHold ? "Hold" : "Idle"
HoldOrIdle(hold) == IF hold THEN "Hold" ELSE "Idle"

\* Faulty variant: the per-pulse feed-hold check is missing.
holdBreaks_Never(hold) == FALSE
\* if (feedHold) break;
holdBreaks(hold) == hold
\* posVar += deltaDeg;
posAfterMove(posVar, deltaDeg) == fadd(posVar, deltaDeg)
\* Faulty variant: only the upper limit is tested.
beyondLimit_MaxOnly(axis, target) == fless(LimitMax(axis), target)
\* target < LIMIT_MIN || target > LIMIT_MAX
beyondLimit(axis, target) ==
    fless(target, LimitMin(axis)) \/ fless(LimitMax(axis), target)

\* Faulty variant: the direction levels are exchanged.
dirLevel_Inverted(totalSteps) == IF totalSteps > 0 THEN "LOW" ELSE "HIGH"
\* digitalWrite(pinDir, totalSteps > 0 ? HIGH : LOW);
dirLevel(totalSteps) == IF totalSteps > 0 THEN "HIGH" ELSE "LOW"

(***************************************************************************)
(* stepAxis, up to its for loop: m.pc = "step" when the loop is entered,   *)
(* "loop" when stepAxis has returned at once.                              *)
(***************************************************************************)
\* long totalSteps = lroundf(deltaDeg * stepsPerDeg);
stepsUndefined(axis, deltaDeg) == ~lroundfDefined(fmul(deltaDeg, StepsPerDeg(axis)))
\* lroundf(x) in a pass m: where it is undefined, the next outcome of m.ub
lroundfIn(m, x) == IF lroundfDefined(x) THEN lroundf(x) ELSE Head(m.ub)
totalStepsOf(m, axis, deltaDeg) == lroundfIn(m, fmul(deltaDeg, StepsPerDeg(axis)))
\* The pass after that call of lroundf.
lroundfCalled(m, axis, deltaDeg) ==
    IF stepsUndefined(axis, deltaDeg) THEN [m EXCEPT !.ub = Tail(@)] ELSE m

\* totalSteps = labs(totalSteps)
labsIn(m, n) == IF labsDefined(n) THEN labs(n) ELSE LONG_MIN
\* The test of the for loop in a pass m, s < totalSteps: where labs is
\* undefined, the next outcome of m.ua
loopTestIn(m, n) == IF labsDefined(n) THEN "lt" ELSE Head(m.ua)
\* s < totalSteps, as the build tests it for a call of stepAxis f
loopGoesOn(f) == IF f.test = "lt" THEN f.s < f.totalSteps ELSE f.s # f.totalSteps
\* The pass after that call of labs.
labsCalled(m, n) == IF labsDefined(n) THEN m ELSE [m EXCEPT !.ua = Tail(@)]

\* digitalWrite(pinDir, ...), labs and the entry into the for loop
enterLoop(m1, axis, deltaDeg, totalSteps, ret) ==
    [labsCalled(m1, totalSteps) EXCEPT
               !.dir[axis] = dirLevel(totalSteps),
               !.pc = "step",
               !.frame = [axis |-> axis, deltaDeg |-> deltaDeg,
                          totalSteps |-> labsIn(m1, totalSteps),
                          test |-> loopTestIn(m1, totalSteps), s |-> 0, ret |-> ret]]

\* stepAxis after its first line: m1 is the pass after the call of lroundf.
stepAxisFrom(m1, totalSteps, axis, deltaDeg, ret) ==
    IF totalSteps = 0
    THEN m1                                     \* if (!totalSteps) return;
    ELSE enterLoop(m1, axis, deltaDeg, totalSteps, ret)

\* Faulty variant: stepAxis returns at once when feed-hold is set, as for zero steps.
stepAxis_ReturnsOnHold(m, axis, deltaDeg, ret) ==
    stepAxisFrom(lroundfCalled(m, axis, deltaDeg),
                 IF m.hold THEN 0 ELSE totalStepsOf(m, axis, deltaDeg),
                 axis, deltaDeg, ret)

stepAxis(m, axis, deltaDeg, ret) ==
    stepAxisFrom(lroundfCalled(m, axis, deltaDeg), totalStepsOf(m, axis, deltaDeg),
                 axis, deltaDeg, ret)
(***************************************************************************)
(* The code of loop() that follows each call of stepAxis.                  *)
(***************************************************************************)
\* Faulty variant: the end of a jog clears the hold flag and reports Idle.
afterJog_ClearsHold(m) == sendStatus([m EXCEPT !.hold = FALSE], "Idle")
\* jog branch: sendStatus(feedHold ? "Hold" : "Idle"); return;
afterJog(m) == sendStatus(m, HoldOrIdle(m.hold))
\* AZM: / ALT: branches: println("OK"); sendStatus(feedHold ? "Hold" : "Idle");
afterLegacy(m) == sendStatus(println(m, "OK"), HoldOrIdle(m.hold))
\* HOME, after the second call: println("OK"); sendStatus("Idle");
afterHomeALT(m) == sendStatus(println(m, "OK"), "Idle")
\* HOME, after the first call: the second call and what follows it
\* r: the pass at the for loop of the second call, or after its early return
homeALTCalled(r) == IF r.pc = "step" THEN r ELSE afterHomeALT(r)
afterHomeAZM(m) == homeALTCalled(stepAxis(m, "ALT", fneg(m.alt), "homeALT"))

afterStepAxis(m, ret) ==
    CASE ret = "jog"     -> afterJog(m)
      [] ret = "legacy"  -> afterLegacy(m)
      [] ret = "homeAZM" -> afterHomeAZM(m)
      [] ret = "homeALT" -> afterHomeALT(m)

\* A call of stepAxis from loop(): into the for loop, or through the early
\* return and on with loop().
stepAxisCalled(r, ret) == IF r.pc = "step" THEN r ELSE afterStepAxis(r, ret)
callStepAxis(m, axis, deltaDeg, ret) == stepAxisCalled(stepAxis(m, axis, deltaDeg, ret), ret)

\* Faulty variant: the jog is not acknowledged.
jogAck_Silent(m) == m
\* Faulty variant: the Run frame is written before the acknowledgment.
jogAck_RunFirst(m) == println(sendStatus(m, "Run"), "ok")
\* jog branch: Serial.println("ok"); sendStatus("Run");
jogAck(m) == sendStatus(println(m, "ok"), "Run")
\* Faulty variant: the poll always reports Idle (as the first revision of the sketch did).
pollReply_AlwaysIdle(m) == println(sendStatus(m, "Idle"), "")
\* status poll: sendStatus(feedHold ? "Hold" : "Idle"); Serial.println();
pollReply(m) == println(sendStatus(m, HoldOrIdle(m.hold)), "")

(***************************************************************************)
(* loop(): the branches for one trimmed, non-empty line                    *)
(***************************************************************************)
\* Faulty variant: every letter but Y selects the azimuth axis.
axisOf_DefaultsToAZM(c) == IF c = "Y" THEN "ALT" ELSE "AZM"
\* if (axis == 'X') ... else if (axis == 'Y') ... else (no axis)
axisOf(c) == IF c = "X" THEN "AZM" ELSE IF c = "Y" THEN "ALT" ELSE "none"

\* Faulty variant: an F without a feed rate above 0 is refused as well.
badJog_NeedsFeed(line, fPos) ==
    fPos < 2 \/ fleq(toFloat(substringFrom(line, fPos + 1)), FZero)
\* if (fPos < 2) { Serial.println("error:Bad $J"); return; }
badJog(line, fPos) == fPos < 2

\* Jog commands ($J=... or J=...)
\* float target = relative ? (posDeg + value) : value;
jogTarget(m1, a, relative, value) == IF relative THEN fadd(Pos(m1, a), value) ELSE value
\* The limit test of one axis and the move to target.
jogTo(m1, a, target, errTxt) ==
    IF beyondLimit(a, target)
    THEN afterJog(println(m1, errTxt))
    ELSE callStepAxis(m1, a, fsub(target, Pos(m1, a)), "jog")
\* m1: the pass after the acknowledgment; a: the axis its letter names
jogAxis(m1, a, relative, value) ==
    IF a = "AZM" THEN jogTo(m1, "AZM", jogTarget(m1, "AZM", relative, value), "error:AZM limit")
    ELSE IF a = "ALT"
         THEN jogTo(m1, "ALT", jogTarget(m1, "ALT", relative, value), "error:ALT limit")
    ELSE afterJog(println(m1, "error:Axis"))
\* line: what is left of the jog after its mode and G21; fPos: line.indexOf('F')
jogParsed(m, line, relative, fPos) ==
    IF badJog(line, fPos) THEN println(m, "error:Bad $J")
    ELSE jogAxis(jogAck(m), axisOf(line[1]),                 \* line.charAt(0)
                 relative, toFloat(substring(line, 1, fPos)))
jogWords(m, relative, line) == jogParsed(m, line, relative, indexOf(line, "F"))
\* line: the jog after the '='
jogMode(m, line) ==
    IF ~(startsWith(line, T_G91) \/ startsWith(line, T_G53))
    THEN println(m, "error:Expected G91/G53")
    ELSE jogWords(m, startsWith(line, T_G91), trim(replaceWithEmpty(remove(line, 0, 3), T_G21)))
jogBranch(m, line0) == jogMode(m, substringFrom(line0, indexOf(line0, "=") + 1))

\* Legacy console helpers AZM:<d> and ALT:<d>
legacyMove(m, axis, d, errTxt) ==
    IF beyondLimit(axis, fadd(Pos(m, axis), d))
    THEN println(m, errTxt)
    ELSE callStepAxis(println(m, "BUSY"), axis, d, "legacy")
legacyBranch(m, line, axis, errTxt) == legacyMove(m, axis, toFloat(substringFrom(line, 4)), errTxt)

\* Faulty variant: the status frame is written before the positions are zeroed.
rstBranch_FrameBeforeReset(m) ==
    [sendStatus(println(m, "OK"), "Idle") EXCEPT !.az = FZero, !.alt = FZero]
\* Faulty variant: only the azimuth position is zeroed.
rstBranch_KeepsALT(m) == sendStatus(println([m EXCEPT !.az = FZero], "OK"), "Idle")
\* RST: posDegAZM = posDegALT = 0.0f; println("OK"); sendStatus("Idle");
rstBranch(m) ==
    sendStatus(println([m EXCEPT !.az = FZero, !.alt = FZero], "OK"), "Idle")

\* Faulty variant: an unrecognized line is dropped without a reply.
unknownReply_Silent(m) == m
\* Faulty variant: an unrecognized line is acknowledged like $X.
unknownReply_Ok(m) == println(m, "ok")
\* Unknown command: Serial.println("ERR:Unknown command");
unknownReply(m) == println(m, "ERR:Unknown command")

\* Faulty variant: the position line is followed by a status frame.
posReply_WithFrame(m) ==
    sendStatus([m EXCEPT !.out = Append(@, PosLine(m.az, m.alt))], HoldOrIdle(m.hold))
\* POS? / STA?: print("POS:AZM="); print(posDegAZM, 3); print(",ALT="); println(posDegALT, 3);
posReply(m) == [m EXCEPT !.out = Append(@, PosLine(m.az, m.alt))]

\* Faulty variant: resume also drives the azimuth back to 0.
resumeBranch_DrivesBack(m) ==
    callStepAxis(println([m EXCEPT !.hold = FALSE], "ok"), "AZM", fneg(m.az), "legacy")
\* if (line == "~"){ feedHold = false; Serial.println("ok"); return; }
resumeBranch(m) == println([m EXCEPT !.hold = FALSE], "ok")

dispatch(m, line) ==
    IF line = T_Hold THEN println([m EXCEPT !.hold = TRUE], "ok")
    ELSE IF line = T_Resume THEN resumeBranch(m)
    ELSE IF line = T_Unlock THEN println(m, "ok")
    ELSE IF startsWith(line, T_JogA) \/ startsWith(line, T_JogB) THEN jogBranch(m, line)
    ELSE IF startsWith(line, T_AZM) THEN legacyBranch(m, line, "AZM", "ERR:AZM limit")
    ELSE IF startsWith(line, T_ALT) THEN legacyBranch(m, line, "ALT", "ERR:ALT limit")
    ELSE IF line = T_RST THEN rstBranch(m)
    ELSE IF line = T_HOME
         THEN callStepAxis(println(m, "BUSY"), "AZM", fneg(m.az), "homeAZM")
    ELSE IF line = T_POS \/ line = T_STA
         THEN posReply(m)
    ELSE unknownReply(m)

(***************************************************************************)
(* Actions                                                                 *)
(***************************************************************************)
Init ==
    /\ posDegAZM = FZero
    /\ posDegALT = FZero
    /\ feedHold = FALSE
    /\ pinDir = [a \in Axes |-> "LOW"]
    /\ rx = << >>
    /\ pc = "loop"
    /\ frame = NoFrame
    /\ out = <<StatusFrame("Idle", FZero, FZero)>> \* setup(): sendStatus("Idle")
    /\ cmd = << >>
    /\ pre = [via |-> "boot", az |-> FZero, alt |-> FZero, hold |-> FALSE, cont |-> FALSE]
    /\ pulseNet = [a \in Axes |-> 0]
    /\ moveLog = NoMoves
    /\ rxDuringMove = << >>
    /\ sent = 0

Now == Mach(posDegAZM, posDegALT, feedHold, pinDir, out)

Become(m) ==
    /\ posDegAZM' = m.az
    /\ posDegALT' = m.alt
    /\ feedHold' = m.hold
    /\ pinDir' = m.dir
    /\ out' = m.out
    /\ pc' = m.pc
    /\ frame' = m.frame

\* cont: the pass goes on with a host line whose first byte a poll has taken.
Snapshot(via) ==
    [via |-> via, az |-> posDegAZM, alt |-> posDegALT, hold |-> feedHold,
     cont |-> (pre.via = "poll")]

\* Faulty variant: the read runs on to the second newline.
readStringUntil_TwoLines(buf) ==
    LET nl  == indexOf(buf, "\n")
        nl2 == IF nl = -1 THEN -1 ELSE indexOf(SubSeq(buf, nl + 2, Len(buf)), "\n")
        end == IF nl2 = -1 THEN nl ELSE nl + 1 + nl2
    IN  IF end = -1
        THEN [str |-> buf, rest |-> << >>]
        ELSE [str |-> SubSeq(buf, 1, end), rest |-> SubSeq(buf, end + 2, Len(buf))]
\* Serial.readStringUntil('\n'): the bytes before the first newline (all of
\* them if there is none), and what stays in the receive buffer.
readStringUntil(buf) ==
    LET nl == indexOf(buf, "\n")
    IN  IF nl = -1
        THEN [str |-> buf, rest |-> << >>]
        ELSE [str |-> SubSeq(buf, 1, nl), rest |-> SubSeq(buf, nl + 2, Len(buf))]

\* The host writes one line, newline-terminated, to the serial link.
HostSend ==
    /\ sent < MaxCmds
    /\ \E l \in HostLines :
          /\ rx' = rx \o l \o <<"\n">>
          /\ rxDuringMove' = IF pc = "step" THEN rxDuringMove \o l \o <<"\n">> ELSE rxDuringMove
    /\ sent' = sent + 1
    /\ UNCHANGED <<posDegAZM, posDegALT, feedHold, pinDir, pc, frame, out, cmd, pre, pulseNet, moveLog>>

\* The same, with a line of the second repertoire.
HostSendB ==
    /\ sent < MaxCmdsB
    /\ \E l \in HostLinesB :
          /\ rx' = rx \o l \o <<"\n">>
          /\ rxDuringMove' = IF pc = "step" THEN rxDuringMove \o l \o <<"\n">> ELSE rxDuringMove
    /\ sent' = sent + 1
    /\ UNCHANGED <<posDegAZM, posDegALT, feedHold, pinDir, pc, frame, out, cmd, pre, pulseNet, moveLog>>

\* loop(): if (Serial.available() && Serial.peek() == '?') { ... return; }
LoopPoll ==
    /\ pc = "loop"
    /\ rx # << >> /\ Head(rx) = "?"
    /\ rx' = Tail(rx)                                           \* Serial.read()
    /\ Become(pollReply([Now EXCEPT !.out = << >>]))
    /\ cmd' = <<"?">>
    /\ pre' = Snapshot("poll")
    /\ UNCHANGED <<pulseNet, moveLog, rxDuringMove, sent>>

\* The branch of a trimmed line: none for an empty one (isEmpty).
branchOf(m0, line) == IF line = << >> THEN m0 ELSE dispatch(m0, line)
\* The pass r0 is taken, unless lroundf or labs was called where its result
\* is undefined: then the pass is taken with each of the outcomes.
TakeBranch(m0, line, r0) ==
    IF r0.ub = m0.ub /\ r0.ua = m0.ua
    THEN Become(r0)
    ELSE \E ub \in LroundfUndefined \X LroundfUndefined,
            ua \in LabsUndefined \X LabsUndefined :
            Become(branchOf([m0 EXCEPT !.ub = ub, !.ua = ua], line))
\* m0: the controller as the pass begins; line: the line read, trimmed
HandleLine(m0, line) ==
    /\ cmd' = line
    /\ TakeBranch(m0, line, branchOf(m0, line))
    /\ pulseNet' = IF line = T_RST THEN [a \in Axes |-> 0] ELSE pulseNet
    /\ moveLog' = IF line = T_RST THEN NoMoves ELSE moveLog

\* loop(): readStringUntil('\n'), trim, and the branch of the line, up to the
\* return or to the for loop of a stepAxis call.
LoopRead ==
    /\ pc = "loop"
    /\ rx # << >> /\ Head(rx) # "?"
    /\ rx' = readStringUntil(rx).rest
    /\ HandleLine([Now EXCEPT !.out = << >>], trim(readStringUntil(rx).str))
    /\ pre' = Snapshot("line")
    /\ UNCHANGED <<rxDuringMove, sent>>

\* Faulty variant: the position is advanced in the loop, with every pulse.
StepPulse_Incremental ==
    /\ pc = "step"
    /\ loopGoesOn(frame)
    /\ ~holdBreaks(feedHold)
    /\ out' = AddPulse(out, frame.axis, pinDir[frame.axis])
    /\ pulseNet' = [pulseNet EXCEPT ![frame.axis] =
                        @ + (IF pinDir[frame.axis] = "HIGH" THEN 1 ELSE -1)]
    /\ frame' = [frame EXCEPT !.s = increment(@)]
    /\ posDegAZM' = IF frame.axis = "AZM"
                    THEN fadd(posDegAZM, frame.deltaDeg)
                    ELSE posDegAZM
    /\ posDegALT' = IF frame.axis = "ALT"
                    THEN fadd(posDegALT, frame.deltaDeg)
                    ELSE posDegALT
    /\ UNCHANGED <<feedHold, pinDir, rx, pc, cmd, pre, moveLog, rxDuringMove, sent>>

\* stepAxis: one iteration of the for loop that emits a pulse.
StepPulse ==
    /\ pc = "step"
    /\ loopGoesOn(frame)
    /\ ~holdBreaks(feedHold)
    /\ out' = AddPulse(out, frame.axis, pinDir[frame.axis])
    /\ pulseNet' = [pulseNet EXCEPT ![frame.axis] =
                        @ + (IF pinDir[frame.axis] = "HIGH" THEN 1 ELSE -1)]
    /\ frame' = [frame EXCEPT !.s = increment(@)]
    /\ UNCHANGED <<posDegAZM, posDegALT, feedHold, pinDir, rx, pc, cmd, pre,
                   moveLog, rxDuringMove, sent>>

\* The pass r1 is taken, unless lroundf or labs was called where its result
\* is undefined: then the pass is taken with each of the outcomes.
TakeReturn(m1, ret, r1) ==
    IF r1.ub = m1.ub /\ r1.ua = m1.ua
    THEN Become(r1)
    ELSE \E ub \in LroundfUndefined \X LroundfUndefined,
            ua \in LabsUndefined \X LabsUndefined :
            Become(afterStepAxis([m1 EXCEPT !.ub = ub, !.ua = ua], ret))
\* m1: the pass at the return of stepAxis
ReturnFrom(m1, ret) == TakeReturn(m1, ret, afterStepAxis(m1, ret))

\* The entry of moveLog for an axis after one more call of stepAxis has
\* left its for loop.
logged(l, hold, deltaDeg) ==
    IF hold THEN [l EXCEPT !.held = fadd(@, deltaDeg)] ELSE [l EXCEPT !.clear = @ + 1]

\* stepAxis: the loop ends (s = totalSteps, or break on feedHold), the
\* position is updated, and loop() goes on after the call.
StepExit ==
    /\ pc = "step"
    /\ ~loopGoesOn(frame) \/ holdBreaks(feedHold)
    /\ ReturnFrom(SetPos([Now EXCEPT !.pc = "loop", !.frame = NoFrame], frame.axis,
                         posAfterMove(Pos(Now, frame.axis), frame.deltaDeg)),
                  frame.ret)
    /\ rxDuringMove' = << >>
    /\ moveLog' = [moveLog EXCEPT ![frame.axis] = logged(@, feedHold, frame.deltaDeg)]
    /\ UNCHANGED <<rx, cmd, pre, pulseNet, sent>>

Next == HostSend \/ LoopPoll \/ LoopRead \/ StepPulse \/ StepExit

Spec == Init /\ [][Next]_vars

\* The same, with a line of the third repertoire.
HostSendC ==
    /\ sent < MaxCmdsC
    /\ \E l \in HostLinesC :
          /\ rx' = rx \o l \o <<"\n">>
          /\ rxDuringMove' = IF pc = "step" THEN rxDuringMove \o l \o <<"\n">> ELSE rxDuringMove
    /\ sent' = sent + 1
    /\ UNCHANGED <<posDegAZM, posDegALT, feedHold, pinDir, pc, frame, out, cmd, pre, pulseNet, moveLog>>

\* The controller with a host that sends lines of the third repertoire.
NextC == HostSendC \/ LoopPoll \/ LoopRead \/ StepPulse \/ StepExit

SpecC == Init /\ [][NextC]_vars

\* The controller with a host that sends lines of the second repertoire.
NextB == HostSendB \/ LoopPoll \/ LoopRead \/ StepPulse \/ StepExit

SpecB == Init /\ [][NextB]_vars

\* The Arduino core calls loop() again whenever it has returned, and a call
\* of stepAxis runs on: a step of the controller that can be taken is taken
\* (weak fairness of each of its actions).  Nothing obliges the host to send.
\* Weak fairness of LoopRead and of StepExit is written out, WF_vars(A) being
\* []<>(~ENABLED <<A>>_vars) \/ []<><<A>>_vars: each is enabled exactly when
\* its guard holds, and its steps are told from the host's by what they
\* change (the host only appends to rx).
ReadEnabled == pc = "loop" /\ rx # << >> /\ Head(rx) # "?"
ReadLineStep == ReadEnabled /\ Len(rx') < Len(rx)
ExitEnabled == pc = "step" /\ (~loopGoesOn(frame) \/ holdBreaks(feedHold))
ExitTaken == ExitEnabled /\ frame' # frame

FairSpecB ==
    /\ SpecB
    /\ WF_vars(LoopPoll) /\ WF_vars(StepPulse)
    /\ ([]<>(~ReadEnabled) \/ []<><<ReadLineStep>>_vars)
    /\ ([]<>(~ExitEnabled) \/ []<><<ExitTaken>>_vars)

\* The same, with a line of the fourth repertoire.
HostSendD ==
    /\ sent < MaxCmdsD
    /\ \E l \in HostLinesD :
          /\ rx' = rx \o l \o <<"\n">>
          /\ rxDuringMove' = IF pc = "step" THEN rxDuringMove \o l \o <<"\n">> ELSE rxDuringMove
    /\ sent' = sent + 1
    /\ UNCHANGED <<posDegAZM, posDegALT, feedHold, pinDir, pc, frame, out, cmd, pre, pulseNet, moveLog>>

\* The controller with a host that sends lines of the fourth repertoire.
NextD == HostSendD \/ LoopPoll \/ LoopRead \/ StepPulse \/ StepExit

SpecD == Init /\ [][NextD]_vars

\* The same, with a line of the fifth repertoire.
HostSendE ==
    /\ sent < MaxCmdsE
    /\ \E l \in HostLinesE :
          /\ rx' = rx \o l \o <<"\n">>
          /\ rxDuringMove' = IF pc = "step" THEN rxDuringMove \o l \o <<"\n">> ELSE rxDuringMove
    /\ sent' = sent + 1
    /\ UNCHANGED <<posDegAZM, posDegALT, feedHold, pinDir, pc, frame, out, cmd, pre, pulseNet, moveLog>>

\* The controller with a host that sends lines of the fifth repertoire.
NextE == HostSendE \/ LoopPoll \/ LoopRead \/ StepPulse \/ StepExit

SpecE == Init /\ [][NextE]_vars

\* The same, with a line of the sixth repertoire.
HostSendF ==
    /\ sent < MaxCmdsF
    /\ \E l \in HostLinesF :
          /\ rx' = rx \o l \o <<"\n">>
          /\ rxDuringMove' = IF pc = "step" THEN rxDuringMove \o l \o <<"\n">> ELSE rxDuringMove
    /\ sent' = sent + 1
    /\ UNCHANGED <<posDegAZM, posDegALT, feedHold, pinDir, pc, frame, out, cmd, pre, pulseNet, moveLog>>

\* The controller with a host that sends lines of the sixth repertoire.
NextF == HostSendF \/ LoopPoll \/ LoopRead \/ StepPulse \/ StepExit

SpecF == Init /\ [][NextF]_vars

\* The same, with a line of the seventh repertoire.
HostSendG ==
    /\ sent < MaxCmdsG
    /\ \E l \in HostLinesG :
          /\ rx' = rx \o l \o <<"\n">>
          /\ rxDuringMove' = IF pc = "step" THEN rxDuringMove \o l \o <<"\n">> ELSE rxDuringMove
    /\ sent' = sent + 1
    /\ UNCHANGED <<posDegAZM, posDegALT, feedHold, pinDir, pc, frame, out, cmd, pre, pulseNet, moveLog>>

\* The controller with a host that sends lines of the seventh repertoire.
\* Its runs are bounded like the host's lines are: a run is followed through
\* MaxCmdsG lines and through MaxPulses pulses of one call of stepAxis, and
\* no further (the for loop itself has no such bound).
NextG ==
    HostSendG \/ LoopPoll \/ LoopRead \/ (frame.s < MaxPulses /\ StepPulse) \/ StepExit

SpecG == Init /\ [][NextG]_vars

\* The same, with a line of the eighth repertoire.
HostSendH ==
    /\ sent < MaxCmdsH
    /\ \E l \in HostLinesH :
          /\ rx' = rx \o l \o <<"\n">>
          /\ rxDuringMove' = IF pc = "step" THEN rxDuringMove \o l \o <<"\n">> ELSE rxDuringMove
    /\ sent' = sent + 1
    /\ UNCHANGED <<posDegAZM, posDegALT, feedHold, pinDir, pc, frame, out, cmd, pre, pulseNet, moveLog>>

\* The controller with a host that sends lines of the eighth repertoire.
NextH == HostSendH \/ LoopPoll \/ LoopRead \/ StepPulse \/ StepExit

SpecH == Init /\ [][NextH]_vars

\* The same, with a line of the ninth repertoire.
HostSendI ==
    /\ sent < MaxCmdsI
    /\ \E l \in HostLinesI :
          /\ rx' = rx \o l \o <<"\n">>
          /\ rxDuringMove' = IF pc = "step" THEN rxDuringMove \o l \o <<"\n">> ELSE rxDuringMove
    /\ sent' = sent + 1
    /\ UNCHANGED <<posDegAZM, posDegALT, feedHold, pinDir, pc, frame, out, cmd, pre, pulseNet, moveLog>>

\* The controller with a host that sends lines of the ninth repertoire.
NextI == HostSendI \/ LoopPoll \/ LoopRead \/ StepPulse \/ StepExit

SpecI == Init /\ [][NextI]_vars

\* The same, with a line of the tenth repertoire.
HostSendJ ==
    /\ sent < MaxCmdsJ
    /\ \E l \in HostLinesJ :
          /\ rx' = rx \o l \o <<"\n">>
          /\ rxDuringMove' = IF pc = "step" THEN rxDuringMove \o l \o <<"\n">> ELSE rxDuringMove
    /\ sent' = sent + 1
    /\ UNCHANGED <<posDegAZM, posDegALT, feedHold, pinDir, pc, frame, out, cmd, pre, pulseNet, moveLog>>

\* The controller with a host that sends lines of the tenth repertoire.
NextJ == HostSendJ \/ LoopPoll \/ LoopRead \/ StepPulse \/ StepExit

SpecJ == Init /\ [][NextJ]_vars

(***************************************************************************)
(* What the host lines mean, stated apart from the sketch's parser: the    *)
(* form of the jog, the axis it addresses and its angle in grid units.     *)
(***************************************************************************)
JogTable ==
    {[line |-> L_AbsX4,   form |-> "G53",    axis |-> "AZM", value |-> 4 * Grid],
     [line |-> L_AbsYm3,  form |-> "G53",    axis |-> "ALT", value |-> -3 * Grid],
     [line |-> L_AbsX1,   form |-> "G53",    axis |-> "AZM", value |-> 1 * Grid],
     [line |-> L_AbsY20,  form |-> "G53",    axis |-> "ALT", value |-> 20 * Unit],
     [line |-> L_AbsXm20, form |-> "G53",    axis |-> "AZM", value |-> -20 * Unit],
     [line |-> L_RelX4,   form |-> "G91",    axis |-> "AZM", value |-> 4 * Grid],
     [line |-> L_RelYm2,  form |-> "G91",    axis |-> "ALT", value |-> -2 * Grid],
     [line |-> L_RelX20,  form |-> "G91",    axis |-> "AZM", value |-> 20 * Unit],
     [line |-> L_RelYm20, form |-> "G91",    axis |-> "ALT", value |-> -20 * Unit],
     [line |-> L_AzmM3,   form |-> "legacy", axis |-> "AZM", value |-> -3 * Grid],
     [line |-> L_Alt4,    form |-> "legacy", axis |-> "ALT", value |-> 4 * Grid],
     [line |-> L_Azm20,   form |-> "legacy", axis |-> "AZM", value |-> 20 * Unit],
     [line |-> L_AltM20,  form |-> "legacy", axis |-> "ALT", value |-> -20 * Unit]}

\* The current (or last) pass of loop() handles line l, read as a line.
Handling(l) == pre.via = "line" /\ cmd = l
\* ... and has returned.
Handled(l) == Handling(l) /\ pc = "loop"

\* Positions in grid units.
PrePos(axis) == Val(IF axis = "AZM" THEN pre.az ELSE pre.alt)
CurPos(axis) == Val(IF axis = "AZM" THEN posDegAZM ELSE posDegALT)
JogTarget(j) == IF j.form = "G53" THEN j.value ELSE PrePos(j.axis) + j.value
JogDelta(j) == JogTarget(j) - PrePos(j.axis)
WithinLimits(axis, t) == Val(LimitMin(axis)) <= t /\ t <= Val(LimitMax(axis))
\* The whole number of steps the move of jog j asks for.
\* lroundf(deltaDeg * stepsPerDeg) for a move of u grid units
StepsOf(u, axis) == lroundf(fmul(Flt(u), StepsPerDeg(axis)))
JogSteps(j) == StepsOf(JogDelta(j), j.axis)

NoPulse(o) == \A i \in 1..Len(o) : o[i].k # "pulses"
RECURSIVE PulseCount(_)
PulseCount(o) ==
    IF o = << >> THEN 0
    ELSE (IF Head(o).k = "pulses" THEN Head(o).n ELSE 0) + PulseCount(Tail(o))
Wrote(o, txt) == \E i \in 1..Len(o) : o[i] = [k |-> "line", txt |-> txt]
StatusCount(o) == Cardinality({i \in 1..Len(o) : o[i].k = "status"})

LimitErrorText(j) ==
    CASE j.form = "legacy" /\ j.axis = "AZM" -> "ERR:AZM limit"
      [] j.form = "legacy" /\ j.axis = "ALT" -> "ERR:ALT limit"
      [] j.form # "legacy" /\ j.axis = "AZM" -> "error:AZM limit"
      [] j.form # "legacy" /\ j.axis = "ALT" -> "error:ALT limit"

\* A step of the controller that emits one pulse.
PulseStep == pc = "step" /\ pc' = "step" /\ frame'.s = increment(frame.s)
\* A step of the controller that ends the active call of stepAxis.
ExitStep == pc = "step" /\ (pc' = "loop" \/ frame'.ret # frame.ret)
\* A step of the controller that takes input from the serial link.
ReadStep == Len(rx') < Len(rx)

(***************************************************************************)
(* C1.  A jog (G53, G91 or legacy AZM:/ALT:) whose target lies outside the *)
(* soft limits of its axis emits no step pulse, never enters the pulse     *)
(* loop, leaves both positions as they were before the command, and        *)
(* writes the limit error line of its axis.                                *)
(***************************************************************************)
C1_RejectedJogChangesNothing ==
    \A j \in JogTable :
        (Handling(j.line) /\ ~WithinLimits(j.axis, JogTarget(j))) =>
            /\ pc = "loop"
            /\ NoPulse(out)
            /\ posDegAZM = pre.az /\ posDegALT = pre.alt
            /\ Wrote(out, LimitErrorText(j))

\* A relative jog rejected from a position other than the boot position.
C1_Witness ==
    \E j \in JogTable :
        /\ Handled(j.line) /\ j.form = "G91"
        /\ ~WithinLimits(j.axis, JogTarget(j))
        /\ PrePos(j.axis) # 0
        /\ Wrote(out, LimitErrorText(j))

(***************************************************************************)
(* C2.  After an absolute jog (G53) to a value V within the limits has     *)
(* been handled, the position of the axis equals V.                        *)
(***************************************************************************)
\* The absolute jogs of the tenth repertoire, with the text of their value.
AbsTableJ ==
    {[line |-> L_AbsX10,   axis |-> "AZM", arg |-> <<"1", "0">>],
     [line |-> L_AbsX0035, axis |-> "AZM", arg |-> <<"0", ".", "0", "0", "3", "5">>]}

\* The float target lies between the soft limits of the axis, limits included.
Between(axis, target) == fleq(LimitMin(axis), target) /\ fleq(target, LimitMax(axis))

C2_AbsoluteJogReachesValue ==
    \A j \in AbsTableJ :
        (Handled(j.line) /\ Between(j.axis, toFloat(j.arg))) =>
            posDegAZM = toFloat(j.arg)

\* The absolute jog to 0.0035 has been made from azimuth 10 with 8886
\* pulses, and the position is 3670 * 2^-20 = 0.003499984741210937500, the
\* multiple of 2^-20 next to 0.0035, not the float that atof gives for 0.0035.
C2_Witness ==
    /\ Handled(L_AbsX0035) /\ pre.az = FromInt(10)
    /\ PulseCount(out) = 8886
    /\ posDegAZM = Fin(3670, -20)
    /\ posDegAZM # toFloat(<<"0", ".", "0", "0", "3", "5">>)

(***************************************************************************)
(* C3.  A jog with a target within the limits and a non-zero rounded step  *)
(* count, dispatched while the feed-hold flag is set, emits no pulse, and  *)
(* the position of its axis still advances by the full requested delta.    *)
(***************************************************************************)
C3_HeldJogAdvancesPositionWithoutPulses ==
    \A j \in JogTable :
        (Handling(j.line) /\ pre.hold /\ WithinLimits(j.axis, JogTarget(j))
            /\ JogSteps(j) # 0) =>
            /\ NoPulse(out)
            /\ pc = "loop" => CurPos(j.axis) = PrePos(j.axis) + JogDelta(j)

C3_Witness ==
    \E j \in JogTable :
        /\ Handled(j.line) /\ pre.hold /\ WithinLimits(j.axis, JogTarget(j))
        /\ JogSteps(j) # 0
        /\ NoPulse(out)
        /\ CurPos(j.axis) # PrePos(j.axis)

(***************************************************************************)
(* C4 as stated.  Whenever no move is in progress, the position of each    *)
(* axis is the position its net pulse count implies: the position, in      *)
(* whole steps, equals the pulses issued since boot or RST.                *)
(***************************************************************************)
C4_PositionReflectsPulses ==
    pc = "loop" =>
        \A a \in Axes : StepsOf(CurPos(a), a) = pulseNet[a]

(***************************************************************************)
(* C4 amended.  When a move ends, the position of its axis advances by the *)
(* full requested delta whether or not the pulse train was cut short: the  *)
(* move has issued all its pulses, the rounded step count of the delta, if *)
(* the feed-hold flag is clear and none of them if it is set.  So whenever *)
(* no move of an axis is in progress, its position is the position its net *)
(* pulse count since boot or RST implies, plus the deltas of the moves     *)
(* that feed-hold cut short, to within half a step for each move made with *)
(* the flag clear.                                                         *)
(***************************************************************************)
\* Steps in an angle of g grid angles (2^-11 degree), as a fraction: the
\* numerator for g = 1 (500, 450) over StepsOfGridDen (1152).
StepsOfGridNum(axis) ==
    (MOTOR_FULL_STEPS * MICROSTEPPING
        * (IF axis = "AZM" THEN GEAR_RATIO_AZM ELSE GEAR_RATIO_ALT)) \div 640
StepsOfGridDen == (360 * Pow2(11)) \div 640
\* The position of an axis less the deltas of its moves cut short, in grid angles.
UnheldPos(a) == (CurPos(a) - Val(moveLog[a].held)) \div Grid
\* No call of stepAxis for axis a is in its for loop.
AtRest(a) == pc = "loop" \/ frame.axis # a

C4_PositionWithinHalfStepPerMove ==
    /\ [](\A a \in Axes :
            AtRest(a) =>
                /\ (CurPos(a) - Val(moveLog[a].held)) % Grid = 0
                /\ 2 * Abs(UnheldPos(a) * StepsOfGridNum(a) - pulseNet[a] * StepsOfGridDen)
                       <= moveLog[a].clear * StepsOfGridDen)
    /\ [][ExitStep =>
          /\ posDegAZM' = fadd(posDegAZM, IF frame.axis = "AZM" THEN frame.deltaDeg ELSE FZero)
          /\ posDegALT' = fadd(posDegALT, IF frame.axis = "ALT" THEN frame.deltaDeg ELSE FZero)
          /\ frame.s = IF feedHold THEN 0 ELSE frame.totalSteps
          /\ frame.totalSteps > 0
       ]_vars

\* Two azimuth moves have been made with the flag clear, by -0.00146484375
\* (1.30 steps, one pulse) and by 0.001953125 degrees (1.74 steps, two
\* pulses): the net pulse count is 1 and the position 0.00048828125
\* degrees, 0.43 step.
C4_Witness ==
    /\ pc = "loop" /\ ~feedHold
    /\ moveLog["AZM"] = [clear |-> 2, held |-> FZero]
    /\ pulseNet["AZM"] = 1
    /\ posDegAZM = Flt(1 * Grid)

(***************************************************************************)
(* C5.  The feed-hold flag is false at boot; handling a line '!' sets it,  *)
(* handling a line '~' clears it, and no other step changes it: not any    *)
(* other command, nor the end of a move, complete or cut short.            *)
(***************************************************************************)
C5_HoldFlagLifecycle ==
    /\ feedHold = FALSE
    /\ [][IF ReadStep /\ Handling(L_Hold)' THEN feedHold' = TRUE
          ELSE IF ReadStep /\ Handling(L_Resume)' THEN feedHold' = FALSE
          ELSE feedHold' = feedHold]_vars

\* A jog has been handled under feed-hold and the flag is still set.
C5_Witness ==
    \E j \in JogTable : Handled(j.line) /\ pre.hold /\ feedHold /\ CurPos(j.axis) # PrePos(j.axis)

(***************************************************************************)
(* C6 as stated.  A '!' line that the host sends while a pulse train is in  *)
(* progress stops the train at the next per-pulse check: once the line has *)
(* arrived, the move emits no further pulse.                               *)
(***************************************************************************)
\* A line '!' has arrived since the pulse loop was entered.
HoldSentDuringMove ==
    \E i \in 1..(Len(rxDuringMove) - 1) :
        /\ rxDuringMove[i] = "!" /\ rxDuringMove[i + 1] = "\n"
        /\ (i = 1 \/ rxDuringMove[i - 1] = "\n")

C6_HoldLineInterruptsMove ==
    [][(pc = "step" /\ HoldSentDuringMove) => ~PulseStep]_vars

\* A '!' line arrived during the pulse loop, and the loop has nevertheless
\* emitted every pulse of the move with the flag still clear.
C6_Witness ==
    /\ pc = "step" /\ HoldSentDuringMove
    /\ ~feedHold
    /\ frame.totalSteps = 2 /\ frame.s = frame.totalSteps

(***************************************************************************)
(* C7.  For a well-formed jog line ($J= or J=, G91 or G53, axis, value, F) *)
(* the pass writes "ok" first, then a Run status frame, then the pulses of *)
(* the move, then one closing status frame whose state is Hold if the      *)
(* feed-hold flag is set and Idle otherwise; nothing follows that frame.   *)
(***************************************************************************)
C7_JogReplyOrder ==
    \A j \in JogTable :
        (Handling(j.line) /\ j.form # "legacy") =>
            /\ Len(out) >= 2
            /\ out[1] = [k |-> "line", txt |-> "ok"]
            /\ out[2].k = "status" /\ out[2].state = "Run"
            /\ pc = "step" => /\ \A i \in 3..Len(out) : out[i].k = "pulses"
                              /\ StatusCount(out) = 1
            /\ pc = "loop" => /\ Len(out) >= 3
                              /\ out[Len(out)].k = "status"
                              /\ out[Len(out)].state = IF feedHold THEN "Hold" ELSE "Idle"
                              /\ StatusCount(out) = 2
                              /\ \A i \in 3..(Len(out) - 1) : out[i].k \in {"pulses", "line"}

\* A jog that emitted its two pulses between the Run frame and the closing frame.
C7_Witness ==
    /\ Handled(L_RelX4)
    /\ Len(out) = 4
    /\ out[3] = [k |-> "pulses", axis |-> "AZM", dir |-> "HIGH", n |-> 2]
    /\ out[4].k = "status" /\ out[4].state = "Idle"

(***************************************************************************)
(* C8.  No step pulse is emitted while the feed-hold flag is true: with    *)
(* the flag set, the pulse loop of the current move ends without a pulse,  *)
(* and the pulses already counted stay counted.                            *)
(***************************************************************************)
C8_NoPulseUnderHold ==
    [][/\ PulseStep => ~feedHold
       /\ (pc = "step" /\ feedHold /\ sent' = sent) => (ExitStep /\ pulseNet' = pulseNet)
      ]_vars

\* A move is in the pulse loop with the flag set.
C8_Witness == pc = "step" /\ feedHold /\ frame.totalSteps > 0

(***************************************************************************)
(* C9.  Handling a status poll '?' writes exactly one status frame, with   *)
(* state Hold if the feed-hold flag is set and Idle otherwise and with the *)
(* current positions; it writes no "ok" or "OK" line and changes neither   *)
(* position nor the hold flag.                                             *)
(***************************************************************************)
C9_PollWritesOneFrame ==
    pre.via = "poll" =>
        /\ pc = "loop"
        /\ StatusCount(out) = 1
        /\ out[1] = [k |-> "status",
                     state |-> IF feedHold THEN "Hold" ELSE "Idle",
                     x |-> printFloat3(posDegAZM), y |-> printFloat3(posDegALT)]
        /\ ~Wrote(out, "ok") /\ ~Wrote(out, "OK")
        /\ posDegAZM = pre.az /\ posDegALT = pre.alt /\ feedHold = pre.hold

\* A poll under feed-hold, away from the boot position.
C9_Witness ==
    /\ pre.via = "poll" /\ feedHold /\ posDegAZM # FZero
    /\ out[1].k = "status" /\ out[1].state = "Hold"

(***************************************************************************)
(* C10 as stated.  Every status frame written while no move is in progress *)
(* (by '?', at the end of a jog or legacy jog, after RST and after HOME)   *)
(* carries the state Hold when the feed-hold flag is set and Idle when it  *)
(* is clear.                                                               *)
(***************************************************************************)
C10_IdleFramesShowHold ==
    \A i \in 1..Len(out) :
        (out[i].k = "status" /\ out[i].state # "Run") =>
            out[i].state = IF feedHold THEN "Hold" ELSE "Idle"

\* RST or HOME has been handled with the flag set, and its frame says Idle.
C10_Witness ==
    /\ Handled(L_RST) \/ Handled(L_HOME)
    /\ feedHold
    /\ out[Len(out)].k = "status" /\ out[Len(out)].state = "Idle"

(***************************************************************************)
(* C11.  Commands are handled one at a time.  Input is taken only at the   *)
(* top of loop(), never while a move is in flight; each read takes one     *)
(* line (or the one byte '?' of a poll) and leaves the rest waiting; what  *)
(* a pass has written and pulsed only grows until the pass ends, and once  *)
(* it has ended nothing more is written or pulsed until the next read.     *)
(***************************************************************************)
\* o2 is o1 with more events after it (a run of pulses may have grown).
Extends(o1, o2) ==
    \/ o1 = << >>
    \/ /\ Len(o2) >= Len(o1)
       /\ \A i \in 1..(Len(o1) - 1) : o2[i] = o1[i]
       /\ \/ o2[Len(o1)] = o1[Len(o1)]
          \/ /\ o1[Len(o1)].k = "pulses" /\ o2[Len(o1)].k = "pulses"
             /\ o2[Len(o1)].axis = o1[Len(o1)].axis /\ o2[Len(o1)].dir = o1[Len(o1)].dir
             /\ o2[Len(o1)].n > o1[Len(o1)].n

\* The bytes taken by a read are one whole line, or the '?' of a poll.
TookOneCommand ==
    \E k \in 1..Len(rx) :
        /\ rx' = SubSeq(rx, k + 1, Len(rx))
        /\ \/ k = 1 /\ rx[1] = "?"
           \/ rx[1] # "?" /\ rx[k] = "\n" /\ \A i \in 1..(k - 1) : rx[i] # "\n"

C11_OneCommandAtATime ==
    [][/\ ReadStep => (pc = "loop" /\ TookOneCommand)
       /\ ~ReadStep => Extends(out, out')
       /\ (pc = "loop" /\ ~ReadStep) => (out' = out /\ pc' = "loop")
       /\ pc = "step" => frame.axis \in Axes
      ]_vars

\* The next command waits in the receive buffer while a move is in flight
\* and has already pulsed.
C11_Witness ==
    /\ pc = "step" /\ frame.s = 1
    /\ rx # << >>
    /\ Len(out) >= 1 /\ out[Len(out)].k = "pulses"

(***************************************************************************)
(* C12 as stated.  Every line the host sends, whatever its content and in  *)
(* whatever state it arrives, is followed by at least one reply line, and  *)
(* the controller then stands ready at the top of loop() again: whenever   *)
(* input is waiting, the controller comes to rest with all of it read, and *)
(* every pass that has handled a line of the host has written a reply.     *)
(***************************************************************************)
\* The pass has written at least one line to the host.
HasReply(o) == \E i \in 1..Len(o) : o[i].k # "pulses"
\* The last pass read a line of the host from its first byte and has returned.
WholeLineDone == pc = "loop" /\ pre.via = "line" /\ ~pre.cont
Ready == pc = "loop" /\ rx = << >>

C12_EveryLineAnswered ==
    /\ [](rx # << >> => <>Ready)
    /\ [](WholeLineDone => HasReply(out))

(***************************************************************************)
(* C12 amended.  Every line that is not empty after trimming is followed   *)
(* by at least one reply line, and after every line, empty or not, the     *)
(* controller stands ready again; an empty or blank line is read and       *)
(* dropped without any reply.                                              *)
(***************************************************************************)
C12_EveryNonEmptyLineAnswered ==
    /\ [](rx # << >> => <>Ready)
    /\ []((WholeLineDone /\ cmd # << >>) => HasReply(out))
    /\ []((WholeLineDone /\ cmd = << >>) => out = << >>)

\* A jog line without its F token, arriving under feed-hold away from the
\* boot position, has been answered and the controller is ready again.
C12_Witness ==
    /\ Handled(L_JogNoF) /\ Wrote(out, "error:Bad $J")
    /\ Ready /\ feedHold /\ posDegALT # FZero


(***************************************************************************)
(* C13 as stated.  Every received line that matches none of the command    *)
(* patterns (?, !, ~, $X, $J= or J= jog, AZM: or ALT: legacy jog, RST,     *)
(* HOME, POS?, STA?) is answered with exactly one line, the unknown-       *)
(* command error, emits no pulse and leaves both positions and the hold    *)
(* flag as they were.                                                      *)
(***************************************************************************)
\* The trimmed line c matches one of the command patterns.
Recognized(c) ==
    \/ c \in {<<"?">>, T_Hold, T_Resume, T_Unlock, T_RST, T_HOME, T_POS, T_STA}
    \/ startsWith(c, T_JogA) \/ startsWith(c, T_JogB)
    \/ startsWith(c, T_AZM) \/ startsWith(c, T_ALT)

OnlyUnknownError ==
    /\ out = <<[k |-> "line", txt |-> "ERR:Unknown command"]>>
    /\ posDegAZM = pre.az /\ posDegALT = pre.alt /\ feedHold = pre.hold

C13_UnmatchedLineGetsUnknownError ==
    (WholeLineDone /\ ~Recognized(cmd)) => OnlyUnknownError

(***************************************************************************)
(* C13 amended.  Every line read that is not empty after trimming and      *)
(* matches none of the command patterns is answered with exactly one line, *)
(* the unknown-command error, emits no pulse and leaves positions and hold *)
(* flag as they were; this holds as well for the rest of a line whose      *)
(* first byte '?' was answered as a poll.  A line that is empty after      *)
(* trimming gets no reply and changes nothing.                             *)
(***************************************************************************)
C13_NonEmptyUnmatchedLineGetsUnknownError ==
    (pc = "loop" /\ pre.via = "line" /\ ~Recognized(cmd)) =>
        IF cmd # << >>
        THEN OnlyUnknownError
        ELSE /\ out = << >>
             /\ posDegAZM = pre.az /\ posDegALT = pre.alt /\ feedHold = pre.hold

\* The lower-case line rst, read under feed-hold away from the boot position,
\* has been answered with the unknown-command error.
C13_Witness ==
    /\ Handled(L_Lower) /\ OnlyUnknownError
    /\ feedHold /\ posDegALT # FZero

(***************************************************************************)
(* C14.  A jog line without its mode marker G91/G53, without its F token,  *)
(* or with an axis letter that is neither X nor Y is answered with the     *)
(* error line of its fault, never enters the pulse loop, emits no pulse    *)
(* and leaves both positions and the hold flag as they were.  The first    *)
(* two faults are answered with the error line alone; the axis letter is   *)
(* tested after the acknowledgment, so its error line stands between the   *)
(* "ok" and Run frame and the closing frame.                               *)
(***************************************************************************)
MalformedTable ==
    {[line |-> L_JogNoMode,  fault |-> "mode", err |-> "error:Expected G91/G53"],
     [line |-> L_JogNoF,     fault |-> "F",    err |-> "error:Bad $J"],
     [line |-> L_JogBadAxis, fault |-> "axis", err |-> "error:Axis"]}

C14_MalformedJogRejected ==
    \A j \in MalformedTable :
        Handling(j.line) =>
            /\ pc = "loop"
            /\ NoPulse(out)
            /\ posDegAZM = pre.az /\ posDegALT = pre.alt /\ feedHold = pre.hold
            /\ IF j.fault = "axis"
               THEN /\ Len(out) = 4
                    /\ out[1] = [k |-> "line", txt |-> "ok"]
                    /\ out[2].k = "status" /\ out[2].state = "Run"
                    /\ out[3] = [k |-> "line", txt |-> j.err]
                    /\ out[4].k = "status"
                    /\ out[4].state = IF feedHold THEN "Hold" ELSE "Idle"
               ELSE out = <<[k |-> "line", txt |-> j.err]>>

\* A jog with axis letter Z has been refused away from the boot position.
C14_Witness ==
    /\ Handled(L_JogBadAxis) /\ Wrote(out, "error:Axis")
    /\ posDegAZM # FZero /\ posDegALT # FZero

(***************************************************************************)
(* C15.  Handling RST sets both logical positions to 0, emits no pulse,    *)
(* and writes OK followed by exactly one status frame, which reports 0.000 *)
(* for both axes.                                                          *)
(***************************************************************************)
Zero3 == <<"0", ".", "0", "0", "0">>

C15_ResetZeroesPositions ==
    Handling(L_RST) =>
        /\ pc = "loop"
        /\ posDegAZM = FZero /\ posDegALT = FZero
        /\ Len(out) = 2
        /\ out[1] = [k |-> "line", txt |-> "OK"]
        /\ out[2].k = "status" /\ out[2].x = Zero3 /\ out[2].y = Zero3

\* RST has been handled from a state with both positions away from 0.
C15_Witness ==
    /\ Handled(L_RST)
    /\ pre.az # FZero /\ pre.alt # FZero
    /\ posDegAZM = FZero /\ posDegALT = FZero

(***************************************************************************)
(* C16.  RST is idempotent: when RST is handled right after RST, the       *)
(* positions are (0,0) after each, and the second pass writes the same     *)
(* replies as the first, the OK line and the status frame.                 *)
(***************************************************************************)
C16_ResetIdempotent ==
    [][(Handled(L_RST) /\ ReadStep /\ cmd' = L_RST) =>
          /\ posDegAZM = FZero /\ posDegALT = FZero
          /\ posDegAZM' = FZero /\ posDegALT' = FZero
          /\ pc' = "loop"
          /\ out' = out
          /\ Len(out') = 2
      ]_vars

\* The third and last line of the host was RST and found azimuth at 0, after
\* azimuth had moved in the positive direction: the line before it was RST
\* too (HOME would have turned the direction pin), so RST followed RST.
C16_Witness ==
    /\ Handled(L_RST) /\ pre.az = FZero
    /\ sent = 3 /\ rx = << >>
    /\ pinDir["AZM"] = "HIGH"

(***************************************************************************)
(* C17.  Handling HOME writes BUSY, runs the azimuth move by the negated   *)
(* azimuth position and then the altitude move by the negated altitude     *)
(* position, writes OK and one status frame, and afterwards both logical   *)
(* positions are 0.                                                        *)
(***************************************************************************)
\* The pulses of HOME's move on an axis: none under feed-hold or when the
\* move rounds to zero steps.
HomeSteps(axis) == StepsOf(-PrePos(axis), axis)
HomePulses(axis) ==
    IF HomeSteps(axis) = 0 \/ feedHold
    THEN << >>
    ELSE <<[k |-> "pulses", axis |-> axis,
            dir |-> IF HomeSteps(axis) > 0 THEN "HIGH" ELSE "LOW",
            n |-> Abs(HomeSteps(axis))]>>

HomeReplies ==
    /\ Len(out) >= 3
    /\ SubSeq(out, 1, Len(out) - 1) =
           <<[k |-> "line", txt |-> "BUSY"]>> \o HomePulses("AZM") \o HomePulses("ALT")
               \o <<[k |-> "line", txt |-> "OK"]>>
    /\ out[Len(out)].k = "status"

C17_HomeReturnsToZero ==
    Handled(L_HOME) => (HomeReplies /\ posDegAZM = FZero /\ posDegALT = FZero)

\* HOME has been handled with the flag clear from 0.00048828125 degrees of
\* azimuth (0.43 step): BUSY, OK and the frame are written, no pulse is
\* emitted, and azimuth is still 0.00048828125 degrees, not 0.
C17_Witness ==
    /\ Handled(L_HOME) /\ ~pre.hold
    /\ pre.az = Flt(1 * Grid) /\ pre.alt = FZero
    /\ HomeReplies /\ NoPulse(out)
    /\ posDegAZM = Flt(1 * Grid)

(***************************************************************************)
(* C18.  An absolute jog to an in-range value V followed at once by a      *)
(* status poll yields a status frame that reports V, to three decimals,    *)
(* for the axis of the jog.                                                *)
(***************************************************************************)
\* A step that answers a poll.
PollStep == ReadStep /\ pre'.via = "poll"
\* The coordinate a status frame gives for an axis.
Reported(f, axis) == IF axis = "AZM" THEN f.x ELSE f.y

C18_PollAfterAbsoluteJogReportsValue ==
    [][\A j \in AbsTableJ :
          (Handled(j.line) /\ Between(j.axis, toFloat(j.arg)) /\ PollStep) =>
              /\ out'[1].k = "status"
              /\ Reported(out'[1], j.axis) = printFloat3(toFloat(j.arg))
      ]_vars

\* The host sent the absolute jog to 10, the absolute jog to 0.0035 and a
\* poll: 8889 pulses up, 8886 down, and the poll has reported 0.003 for
\* azimuth, where 0.0035 to three decimals is 0.004.
C18_Witness ==
    /\ pre.via = "poll" /\ sent = 3 /\ rx = <<"\n">>
    /\ posDegAZM = Fin(3670, -20) /\ pulseNet["AZM"] = 3
    /\ out[1].k = "status" /\ out[1].x = <<"0", ".", "0", "0", "3">>
    /\ printFloat3(toFloat(<<"0", ".", "0", "0", "3", "5">>)) = <<"0", ".", "0", "0", "4">>

(***************************************************************************)
(* C19.  A jog or legacy jog addressed to one axis never changes the       *)
(* logical position of the other axis and emits no pulse on the other      *)
(* axis, whether it is accepted or refused.  From (0,0) the absolute       *)
(* azimuth jog to 5.0 is accepted and ends at (5.0, 0.0) with the frame    *)
(* <Idle|MPos:5.000,0.000,0|; the relative altitude jog of -20.0 that      *)
(* follows is refused and leaves (5.0, 0.0).                               *)
(***************************************************************************)
\* The jogs of the third repertoire.
JogTableC ==
    {[line |-> L_AbsX5,   form |-> "G53",    axis |-> "AZM", value |-> 5 * Unit],
     [line |-> L_AbsYm3,  form |-> "G53",    axis |-> "ALT", value |-> -3 * Grid],
     [line |-> L_RelYm20, form |-> "G91",    axis |-> "ALT", value |-> -20 * Unit],
     [line |-> L_Alt4,    form |-> "legacy", axis |-> "ALT", value |-> 4 * Grid],
     [line |-> L_Azm20,   form |-> "legacy", axis |-> "AZM", value |-> 20 * Unit]}

Other(axis) == IF axis = "AZM" THEN "ALT" ELSE "AZM"

C19_JogLeavesOtherAxisAlone ==
    /\ \A j \in JogTableC :
          Handling(j.line) =>
              /\ CurPos(Other(j.axis)) = PrePos(Other(j.axis))
              /\ \A i \in 1..Len(out) : out[i].k = "pulses" => out[i].axis = j.axis
              /\ pc = "step" => frame.axis = j.axis
    /\ (Handled(L_AbsX5) /\ pre.az = FZero /\ pre.alt = FZero) =>
          /\ posDegAZM = Flt(5 * Unit) /\ posDegALT = FZero
          /\ out[Len(out)] = [k |-> "status", state |-> "Idle",
                              x |-> <<"5", ".", "0", "0", "0">>,
                              y |-> <<"0", ".", "0", "0", "0">>]
    /\ (Handled(L_RelYm20) /\ pre.az = Flt(5 * Unit) /\ pre.alt = FZero) =>
          /\ posDegAZM = Flt(5 * Unit) /\ posDegALT = FZero
          /\ NoPulse(out)
          /\ Wrote(out, "error:ALT limit")

\* The scenario of the claim has run: azimuth went to 5.0 with 4444 pulses
\* and the altitude jog that followed was refused.
C19_Witness ==
    /\ Handled(L_RelYm20) /\ pre.az = Flt(5 * Unit) /\ pre.alt = FZero
    /\ posDegAZM = Flt(5 * Unit) /\ posDegALT = FZero
    /\ pulseNet = [a \in Axes |-> IF a = "AZM" THEN 4444 ELSE 0]

(***************************************************************************)
(* C20 as stated.  For an in-range legacy jog AZM:<delta> or ALT:<delta>   *)
(* the reply BUSY is written if and only if delta is not zero; then the    *)
(* move is made, then OK is written, then a status frame.                  *)
(***************************************************************************)
\* The legacy jogs of the second repertoire.
LegacyTableB ==
    {[line |-> L_Azm0, form |-> "legacy", axis |-> "AZM", value |-> 0],
     [line |-> L_Alt2, form |-> "legacy", axis |-> "ALT", value |-> 2 * Grid]}

\* The pulses of the move of legacy jog j: none under feed-hold or when the
\* move rounds to zero steps.
LegacyPulses(j) ==
    IF JogSteps(j) = 0 \/ feedHold
    THEN << >>
    ELSE <<[k |-> "pulses", axis |-> j.axis,
            dir |-> IF JogSteps(j) > 0 THEN "HIGH" ELSE "LOW",
            n |-> Abs(JogSteps(j))]>>

\* What follows the BUSY line, if any: the move, OK, one status frame.
LegacyTail(j, o) ==
    /\ Len(o) >= 2
    /\ SubSeq(o, 1, Len(o) - 1) = LegacyPulses(j) \o <<[k |-> "line", txt |-> "OK"]>>
    /\ o[Len(o)].k = "status"
    /\ o[Len(o)].state = IF feedHold THEN "Hold" ELSE "Idle"

C20_LegacyBusyOnlyIfNonZero ==
    \A j \in LegacyTableB :
        (Handled(j.line) /\ WithinLimits(j.axis, JogTarget(j))) =>
            IF j.value # 0
            THEN out # << >> /\ out[1] = [k |-> "line", txt |-> "BUSY"] /\ LegacyTail(j, Tail(out))
            ELSE LegacyTail(j, out)

\* AZM:0 has been handled and answered with BUSY, OK and a frame, with no pulse.
C20_Witness ==
    /\ Handled(L_Azm0)
    /\ Len(out) = 3
    /\ out[1] = [k |-> "line", txt |-> "BUSY"]
    /\ out[2] = [k |-> "line", txt |-> "OK"]
    /\ out[3].k = "status"

(***************************************************************************)
(* C21.  Handling POS? or STA? writes exactly one line, POS:AZM=<azimuth>, *)
(* ALT=<altitude> with the current positions to three decimals, and no     *)
(* status frame; both spellings write the same line in the same state, and *)
(* neither changes a position, the hold flag, a direction pin or the pulse *)
(* count, nor starts a move.                                               *)
(***************************************************************************)
C21_PositionQueryWritesOneLine ==
    [][(ReadStep /\ pre'.via = "line" /\ cmd' \in {L_POS, L_STA}) =>
          /\ out' = <<[k |-> "pos", x |-> printFloat3(posDegAZM),
                                    y |-> printFloat3(posDegALT)]>>
          /\ pc' = "loop"
          /\ UNCHANGED <<posDegAZM, posDegALT, feedHold, pinDir, pulseNet>>
      ]_vars

\* STA? has been answered with both axes away from 0.
C21_Witness ==
    /\ Handled(L_STA)
    /\ posDegAZM # FZero /\ posDegALT # FZero
    /\ Len(out) = 1 /\ out[1].k = "pos"

(***************************************************************************)
(* C22 as stated.  White space before and after a command is trimmed       *)
(* before matching, for every command class, the status poll '?' included: *)
(* a line made of a command with white space around it is handled exactly  *)
(* like the bare command, with the same replies and the same change of     *)
(* state.                                                                  *)
(***************************************************************************)
\* The lines of the fourth repertoire and the bare command of each.
PaddedTable ==
    {[line |-> L_PadPollLead,  bare |-> L_Poll],
     [line |-> L_PadPollTrail, bare |-> L_Poll],
     [line |-> L_PadRST,       bare |-> L_RST],
     [line |-> L_PadHOME,      bare |-> L_HOME],
     [line |-> L_PadHold,      bare |-> L_Hold],
     [line |-> L_PadResume,    bare |-> L_Resume],
     [line |-> L_PadUnlock,    bare |-> L_Unlock],
     [line |-> L_PadPOS,       bare |-> L_POS],
     [line |-> L_PadSTA,       bare |-> L_STA],
     [line |-> L_PadAbsX2,     bare |-> L_AbsX2],
     [line |-> L_PadRelYm2,    bare |-> L_RelYm2],
     [line |-> L_PadAlt2,      bare |-> L_Alt2],
     [line |-> L_PadAzmM3,     bare |-> L_AzmM3]}

\* The controller, at the top of loop(), takes input from a buffer that
\* begins with line l.
TakesLine(l) == pc = "loop" /\ ReadStep /\ startsWith(rx, l \o <<"\n">>)
\* What handling the bare command b does from the current state: the poll
\* when b is '?' alone, else the branch of the line b.
BareOutcome(b) ==
    IF b = L_Poll
    THEN pollReply([Now EXCEPT !.out = << >>])
    ELSE dispatch([Now EXCEPT !.out = << >>], b)
\* The step ends in the state e, with the replies of e.
EndsAs(e) ==
    /\ out' = e.out
    /\ posDegAZM' = e.az /\ posDegALT' = e.alt /\ feedHold' = e.hold
    /\ pinDir' = e.dir /\ pc' = e.pc /\ frame' = e.frame
\* The pass that reads what is left of a line after its '?' was answered as
\* a poll, when that is white space only, writes nothing and changes nothing.
RestOfPollIsDropped ==
    (ReadStep /\ pre.via = "poll" /\ pre'.via = "line" /\ cmd' = << >>) =>
        /\ out' = << >> /\ pc' = "loop"
        /\ UNCHANGED <<posDegAZM, posDegALT, feedHold, pinDir, pulseNet>>

C22_PaddedCommandLikeBare ==
    [][/\ \A p \in PaddedTable : TakesLine(p.line) => EndsAs(BareOutcome(p.bare))
       /\ RestOfPollIsDropped
      ]_vars

(***************************************************************************)
(* C22 amended.  White space around a command is trimmed before matching   *)
(* for every command read as a line; white space after the '?' of a poll   *)
(* is read as the rest of the line and dropped without a reply.  The poll  *)
(* is taken only when '?' is the first byte waiting: a line with white     *)
(* space before the '?' is read as a line, matches no command and gets the *)
(* unknown-command error.                                                  *)
(***************************************************************************)
C22_PaddedCommandLikeBareUnlessPollAfterSpace ==
    [][/\ \A p \in PaddedTable :
             TakesLine(p.line) =>
                 EndsAs(IF p.bare = L_Poll /\ Head(p.line) # "?"
                        THEN unknownReply([Now EXCEPT !.out = << >>])
                        ELSE BareOutcome(p.bare))
       /\ RestOfPollIsDropped
      ]_vars

\* The padded absolute jog has been read under feed-hold with altitude away
\* from 0, and has been acknowledged as a jog.
C22_Witness ==
    /\ pre.via = "line" /\ cmd = L_AbsX2 /\ pc = "loop"
    /\ feedHold /\ posDegALT # FZero
    /\ Len(out) = 3 /\ out[1] = [k |-> "line", txt |-> "ok"]

(***************************************************************************)
(* C23.  A relative jog (G91, or legacy AZM:/ALT:) whose delta rounds to a *)
(* pulse count of zero emits no step pulse, never enters the pulse loop,   *)
(* and leaves the logical position of its axis, and of the other axis, as  *)
(* it was.                                                                 *)
(***************************************************************************)
\* The relative jogs of the fifth repertoire.
RelTableE ==
    {[line |-> L_RelX2a,  form |-> "G91",    axis |-> "AZM", value |-> 2 * Grid],
     [line |-> L_RelX2b,  form |-> "G91",    axis |-> "AZM", value |-> 2 * Grid],
     [line |-> L_RelX2c,  form |-> "G91",    axis |-> "AZM", value |-> 2 * Grid],
     [line |-> L_RelX2d,  form |-> "G91",    axis |-> "AZM", value |-> 2 * Grid],
     [line |-> L_RelX2F,  form |-> "G91",    axis |-> "AZM", value |-> 2 * Grid],
     [line |-> L_RelX2F0, form |-> "G91",    axis |-> "AZM", value |-> 2 * Grid],
     [line |-> L_RelX1,   form |-> "G91",    axis |-> "AZM", value |-> 1 * Grid],
     [line |-> L_RelYm1,  form |-> "G91",    axis |-> "ALT", value |-> -1 * Grid],
     [line |-> L_RelX0,   form |-> "G91",    axis |-> "AZM", value |-> 0],
     [line |-> L_RelX20,  form |-> "G91",    axis |-> "AZM", value |-> 20 * Unit],
     [line |-> L_RelX20F, form |-> "G91",    axis |-> "AZM", value |-> 20 * Unit],
     [line |-> L_Azm1,    form |-> "legacy", axis |-> "AZM", value |-> 1 * Grid],
     [line |-> L_Azm0,    form |-> "legacy", axis |-> "AZM", value |-> 0]}

\* The relative jogs of the ninth repertoire; value in units of 2^-22 degree.
RelTableI ==
    {[line |-> L_RelXFrac, form |-> "G91",    axis |-> "AZM", value |-> 2359],
     [line |-> L_AzmFrac,  form |-> "legacy", axis |-> "AZM", value |-> 2359],
     [line |-> L_RelXm3,   form |-> "G91",    axis |-> "AZM", value |-> -3 * Grid],
     [line |-> L_AzmM3,    form |-> "legacy", axis |-> "AZM", value |-> -3 * Grid],
     [line |-> L_RelYm2,   form |-> "G91",    axis |-> "ALT", value |-> -2 * Grid],
     [line |-> L_AltM2,    form |-> "legacy", axis |-> "ALT", value |-> -2 * Grid],
     [line |-> L_RelX1,    form |-> "G91",    axis |-> "AZM", value |-> 1 * Grid],
     [line |-> L_Azm1,     form |-> "legacy", axis |-> "AZM", value |-> 1 * Grid],
     [line |-> L_RelX20,   form |-> "G91",    axis |-> "AZM", value |-> 20 * Unit],
     [line |-> L_Azm20,    form |-> "legacy", axis |-> "AZM", value |-> 20 * Unit],
     [line |-> L_Azm8,     form |-> "legacy", axis |-> "AZM", value |-> 8 * Unit]}

\* round(delta * stepsPerDegree) for the delta of a relative jog
RelSteps(j) == StepsOf(j.value, j.axis)

C23_ZeroStepRelativeJogIsNoOp ==
    \A j \in RelTableE \cup RelTableI :
        (Handling(j.line) /\ RelSteps(j) = 0) =>
            /\ pc = "loop"
            /\ NoPulse(out)
            /\ posDegAZM = pre.az /\ posDegALT = pre.alt

\* The relative jog by 0.0005624294281005859375 degrees of azimuth, which
\* rounds to zero steps (0.49994 step), has been handled from 8 degrees
\* with the flag clear: one pulse has been emitted and azimuth has moved,
\* to 8.0005626678466796875 degrees.
C23_Witness ==
    /\ Handled(L_RelXFrac) /\ ~pre.hold
    /\ RelSteps([axis |-> "AZM", value |-> 2359]) = 0
    /\ pre.az = Flt(8 * Unit)
    /\ PulseCount(out) = 1
    /\ posDegAZM = Flt(8 * Unit + 2360)

(***************************************************************************)
(* C24.  When the move of a jog with a target within the limits rounds to  *)
(* zero pulses, no pulse is emitted and the logical position of the axis   *)
(* is overwritten with the computed target.                                *)
(***************************************************************************)
C24_ZeroStepMoveOverwritesPosition ==
    \A j \in JogTable :
        (Handled(j.line) /\ WithinLimits(j.axis, JogTarget(j)) /\ JogSteps(j) = 0) =>
            /\ NoPulse(out)
            /\ CurPos(j.axis) = JogTarget(j)

\* The absolute altitude jog to -0.00146484375 has been handled from
\* -0.0009765625, 0.39 step away: no pulse, and altitude is still at
\* -0.0009765625, not at the target.
C24_Witness ==
    /\ Handled(L_AbsYm3) /\ ~feedHold
    /\ pre.alt = Flt(-2 * Grid) /\ posDegALT = Flt(-2 * Grid)
    /\ NoPulse(out)

(***************************************************************************)
(* C25 as stated.  In every reachable state, after any sequence of         *)
(* commands, the logical position of each axis lies within the closed      *)
(* interval of its soft limits.                                            *)
(***************************************************************************)
C25_PositionsWithinLimits ==
    \A a \in Axes : WithinLimits(a, CurPos(a))

\* Azimuth stands one float above its upper limit (15.00000095367431640625
\* degrees) after the absolute jog to 15.0, and the legacy jog AZM:0 that
\* followed has been refused with the limit error.
C25_Witness ==
    /\ Handled(L_Azm0)
    /\ CurPos("AZM") = Val(LimitMax("AZM")) + Unit \div Pow2(20)
    /\ out = <<[k |-> "line", txt |-> "ERR:AZM limit"]>>

(***************************************************************************)
(* C26.  For every accepted move dispatched while the feed-hold flag is    *)
(* clear, the pulses emitted on the addressed axis number exactly          *)
(* |round(delta * stepsPerDegree)|; the direction output is set before the *)
(* first pulse to the sign of that count (positive HIGH, negative LOW) and *)
(* keeps that level through the move.  This holds for the move of a jog or *)
(* legacy jog and for each of the two moves of HOME.                       *)
(***************************************************************************)
\* The pulses a move of n steps (signed) on an axis has emitted when s of
\* them are done: one run of s pulses at the level of the sign of n.
PulsesOfMove(axis, n, s) ==
    IF s = 0 THEN << >>
    ELSE <<[k |-> "pulses", axis |-> axis,
            dir |-> IF n > 0 THEN "HIGH" ELSE "LOW", n |-> s]>>
\* The events of o that are pulses, in order.
PulsesIn(o) == SelectSeq(o, LAMBDA e : e.k = "pulses")

C26_PulsesMatchRoundedCount ==
    /\ \A j \in JogTable :
          (Handling(j.line) /\ ~pre.hold /\ WithinLimits(j.axis, JogTarget(j))) =>
              IF pc = "step"
              THEN /\ frame.axis = j.axis
                   /\ frame.totalSteps = Abs(JogSteps(j))
                   /\ frame.s <= frame.totalSteps
                   /\ pinDir[j.axis] = (IF JogSteps(j) > 0 THEN "HIGH" ELSE "LOW")
                   /\ PulsesIn(out) = PulsesOfMove(j.axis, JogSteps(j), frame.s)
              ELSE PulsesIn(out) = PulsesOfMove(j.axis, JogSteps(j), Abs(JogSteps(j)))
    /\ (Handling(L_HOME) /\ ~pre.hold) =>
          IF pc = "step"
          THEN /\ frame.totalSteps = Abs(HomeSteps(frame.axis))
               /\ frame.s <= frame.totalSteps
               /\ pinDir[frame.axis] = (IF HomeSteps(frame.axis) > 0 THEN "HIGH" ELSE "LOW")
               /\ PulsesIn(out) =
                      (IF frame.axis = "ALT"
                       THEN PulsesOfMove("AZM", HomeSteps("AZM"), Abs(HomeSteps("AZM")))
                       ELSE << >>)
                      \o PulsesOfMove(frame.axis, HomeSteps(frame.axis), frame.s)
          ELSE PulsesIn(out) =
                   PulsesOfMove("AZM", HomeSteps("AZM"), Abs(HomeSteps("AZM")))
                   \o PulsesOfMove("ALT", HomeSteps("ALT"), Abs(HomeSteps("ALT")))

\* The absolute altitude jog to -0.00146484375 has been made from
\* 0.001953125 with the flag clear: three pulses with the direction LOW.
C26_Witness ==
    /\ Handled(L_AbsYm3) /\ ~pre.hold /\ pre.alt = Flt(4 * Grid)
    /\ PulsesIn(out) = <<[k |-> "pulses", axis |-> "ALT", dir |-> "LOW", n |-> 3]>>
    /\ pinDir["ALT"] = "LOW"

(***************************************************************************)
(* C27.  A jog is accepted (its move is made and no limit error written)   *)
(* if and only if its computed target, position + value for G91 and legacy *)
(* jogs and value for G53, lies between the soft limits of its axis, the   *)
(* limits included: a target equal to either limit is accepted, a target   *)
(* one float beyond it is refused.  An accepted jog makes the move of its  *)
(* rounded step count; a refused jog writes the limit error, emits no      *)
(* pulse and leaves the position.  A target that is not a number does not  *)
(* lie between the limits, and the jog that computes it is refused.        *)
(***************************************************************************)
\* The jogs of the seventh repertoire by an angle of the grid.
JogTableG ==
    {[line |-> L_AbsX15,    form |-> "G53",    axis |-> "AZM", value |-> 15 * Unit],
     [line |-> L_AbsX15up,  form |-> "G53",    axis |-> "AZM", value |-> 15 * Unit + Unit \div Pow2(20)],
     [line |-> L_AzmM15,    form |-> "legacy", axis |-> "AZM", value |-> -15 * Unit],
     [line |-> L_AzmM1,     form |-> "legacy", axis |-> "AZM", value |-> -1 * Grid],
     [line |-> L_RelX1,     form |-> "G91",    axis |-> "AZM", value |-> 1 * Grid],
     [line |-> L_RelYm15,   form |-> "G91",    axis |-> "ALT", value |-> -15 * Unit]}
\* The jogs of the seventh repertoire whose value is not a number.
NaNJogsG ==
    {[line |-> L_AzmNaN,    form |-> "legacy", axis |-> "AZM", arg |-> <<"n", "a", "n">>]}

C27_AcceptedIffTargetWithinLimits ==
    /\ \A j \in JogTableG :
          (Handling(j.line) /\ IsFinite(pre.az) /\ IsFinite(pre.alt)) =>
              IF WithinLimits(j.axis, JogTarget(j))
              THEN /\ ~Wrote(out, LimitErrorText(j))
                   /\ pc = "step" => (frame.axis = j.axis /\ frame.totalSteps = Abs(JogSteps(j)))
                   /\ pc = "loop" => PulseCount(out) = Abs(JogSteps(j))
              ELSE /\ pc = "loop"
                   /\ Wrote(out, LimitErrorText(j))
                   /\ NoPulse(out)
                   /\ CurPos(j.axis) = PrePos(j.axis)
    /\ \A j \in NaNJogsG :
          (Handling(j.line) /\ ~Between(j.axis, fadd(pre.az, toFloat(j.arg)))) =>
              /\ pc = "loop"
              /\ Wrote(out, LimitErrorText(j))
              /\ NoPulse(out)
              /\ posDegAZM = pre.az

\* The legacy jog AZM:nan has been accepted from the boot position: BUSY is
\* written and no limit error, and stepAxis runs with a step count that
\* lroundf may give for a NaN, here LONG_MAX, well past the 26667 pulses
\* that span the soft limits of azimuth.
C27_Witness ==
    /\ Handling(L_AzmNaN) /\ pre.az = FZero
    /\ ~Between("AZM", toFloat(<<"n", "a", "n">>))
    /\ out[1] = [k |-> "line", txt |-> "BUSY"]
    /\ ~Wrote(out, "ERR:AZM limit")
    /\ pc = "step" /\ frame.axis = "AZM" /\ frame.totalSteps = LONG_MAX
    /\ IsNaN(frame.deltaDeg)
    /\ frame.s > 26667

(***************************************************************************)
(* C28.  The feed rate after F has no effect on a jog: two jog lines that  *)
(* differ only in what follows the F, handled from the same state, write   *)
(* the same replies, start the same move (axis, direction, number of       *)
(* pulses) or are refused alike, and lead to the same positions.           *)
(***************************************************************************)
\* Groups of lines of the fifth repertoire that differ only in the feed rate.
FeedGroups ==
    {{L_RelX2b, L_RelX2F, L_RelX2F0},
     {L_AbsYm3, L_AbsYm3F},
     {L_RelX20, L_RelX20F}}

\* The step reads line l1 and ends as the branch of line l2 ends from the
\* same state; what follows in the pulse loop depends on that state alone.
ReadsLike(l1, l2) == TakesLine(l1) => EndsAs(dispatch([Now EXCEPT !.out = << >>], l2))

C28_FeedRateHasNoEffect ==
    [][\A g \in FeedGroups : \A l1, l2 \in g : ReadsLike(l1, l2)]_vars

\* The jog with nothing after its F has made its one-step move from a
\* position away from 0.
C28_Witness ==
    /\ Handled(L_RelX2F0) /\ pre.az # FZero
    /\ CurPos("AZM") = PrePos("AZM") + 2 * Grid
    /\ PulseCount(out) = 1

(***************************************************************************)
(* C29.  The unit marker G21 and the choice of prefix are ignored: for the *)
(* same mode, axis, value and starting state the lines $J=G91G21...,       *)
(* $J=G91..., J=G91G21... and J=G91..., and likewise with G53, write the   *)
(* same replies, make the same move and lead to the same positions.        *)
(***************************************************************************)
\* Groups of lines of the fifth repertoire that differ only in the prefix
\* and in the presence of G21.
PrefixGroups ==
    {{L_RelX2a, L_RelX2b, L_RelX2c, L_RelX2d},
     {L_AbsYm3a, L_AbsYm3, L_AbsYm3c, L_AbsYm3d}}

C29_UnitMarkerAndPrefixIgnored ==
    [][\A g \in PrefixGroups : \A l1, l2 \in g : ReadsLike(l1, l2)]_vars

\* The absolute jog with prefix J= and with G21 has made its one-step move
\* to -0.00146484375 with azimuth away from 0.
C29_Witness ==
    /\ Handled(L_AbsYm3c) /\ pre.az # FZero /\ pre.alt = FZero
    /\ posDegALT = Flt(-3 * Grid)
    /\ PulseCount(out) = 1

(***************************************************************************)
(* C30.  A jog line that passes the tests of the mode marker and of the F  *)
(* and is then refused, for a target beyond the soft limits or for an axis *)
(* letter that is neither X nor Y, has already been acknowledged: it is    *)
(* answered with ok, a Run status frame, the error line and a closing      *)
(* status frame, in that order.  A jog refused for a missing mode marker   *)
(* or a missing F is answered with the error line alone.  Neither moves    *)
(* anything.                                                               *)
(***************************************************************************)
\* The jogs of the fifth repertoire that can be refused.
RefusedTableE ==
    {[line |-> L_RelX20,     late |-> TRUE,  axis |-> "AZM",  err |-> "error:AZM limit"],
     [line |-> L_RelX20F,    late |-> TRUE,  axis |-> "AZM",  err |-> "error:AZM limit"],
     [line |-> L_AbsY20,     late |-> TRUE,  axis |-> "ALT",  err |-> "error:ALT limit"],
     [line |-> L_JogBadAxis, late |-> TRUE,  axis |-> "none", err |-> "error:Axis"],
     [line |-> L_JogNoMode,  late |-> FALSE, axis |-> "none", err |-> "error:Expected G91/G53"],
     [line |-> L_JogNoF,     late |-> FALSE, axis |-> "none", err |-> "error:Bad $J"]}

C30_LateRefusalIsAcknowledged ==
    \A j \in RefusedTableE :
        Handling(j.line) =>
            /\ pc = "loop"
            /\ posDegAZM = pre.az /\ posDegALT = pre.alt
            /\ IF j.late
               THEN out = <<[k |-> "line", txt |-> "ok"],
                            [k |-> "status", state |-> "Run",
                             x |-> printFloat3(pre.az), y |-> printFloat3(pre.alt)],
                            [k |-> "line", txt |-> j.err],
                            [k |-> "status", state |-> IF feedHold THEN "Hold" ELSE "Idle",
                             x |-> printFloat3(pre.az), y |-> printFloat3(pre.alt)]>>
               ELSE out = <<[k |-> "line", txt |-> j.err]>>

\* The relative azimuth jog of 20.0 has been refused under feed-hold from a
\* position away from 0, after its acknowledgment.
C30_Witness ==
    /\ Handled(L_RelX20) /\ feedHold /\ pre.az # FZero
    /\ Len(out) = 4 /\ out[3] = [k |-> "line", txt |-> "error:AZM limit"]
    /\ out[4].k = "status" /\ out[4].state = "Hold"

(***************************************************************************)
(* C31.  Handling a resume line '~' emits no step pulse and changes no     *)
(* axis position: the pass writes ok alone, starts no move and leaves no   *)
(* call of stepAxis active, and between that read and the next one nothing *)
(* is pulsed or moved.  A move that feed-hold has suppressed stays         *)
(* abandoned when the hold is cleared.                                     *)
(***************************************************************************)
C31_ResumeNeverMoves ==
    [][/\ (ReadStep /\ Handling(L_Resume)') =>
             /\ out' = <<[k |-> "line", txt |-> "ok"]>>
             /\ pc' = "loop" /\ frame' = NoFrame
             /\ UNCHANGED <<posDegAZM, posDegALT, pinDir, pulseNet>>
       /\ (Handling(L_Resume) /\ ~ReadStep) =>
             /\ ~PulseStep /\ ~ExitStep
             /\ UNCHANGED <<posDegAZM, posDegALT, pinDir, pulseNet, out, pc, frame>>
      ]_vars

\* Resume has been handled after a move that the hold suppressed: the hold
\* is cleared, the axis stands away from 0 and not one pulse has been issued.
C31_Witness ==
    /\ Handled(L_Resume)
    /\ pre.hold /\ ~feedHold
    /\ \E a \in Axes : CurPos(a) # 0 /\ pulseNet[a] = 0
    /\ out = <<[k |-> "line", txt |-> "ok"]>>

(***************************************************************************)
(* C32.  The axis positions change, and step pulses are emitted, only in a *)
(* pass of loop() that handles a jog, a legacy jog, RST or HOME.  A pass   *)
(* that handles the poll '?', '!', '~', '$X', POS?, STA?, an empty line or *)
(* an unrecognized line leaves both positions and the pulse counts as they *)
(* were, writes no pulse and enters no pulse loop, in every reachable      *)
(* state.                                                                  *)
(***************************************************************************)
\* The trimmed line c is a jog, a legacy jog, RST or HOME.
MovingCommand(c) ==
    \/ startsWith(c, T_JogA) \/ startsWith(c, T_JogB)
    \/ startsWith(c, T_AZM) \/ startsWith(c, T_ALT)
    \/ c = T_RST \/ c = T_HOME
\* The current pass handles one of the commands that are not moves.
QuietPass ==
    \/ pre.via = "poll"
    \/ /\ pre.via = "line"
       /\ \/ cmd \in {T_Hold, T_Resume, T_Unlock, T_POS, T_STA, << >>}
          \/ ~Recognized(cmd)

C32_PositionsChangeOnlyInMoves ==
    [][/\ QuietPass' =>
             /\ UNCHANGED <<posDegAZM, posDegALT, pulseNet>>
             /\ NoPulse(out') /\ pc' = "loop"
       /\ (posDegAZM' # posDegAZM \/ posDegALT' # posDegALT \/ pulseNet' # pulseNet) =>
             (pre'.via = "line" /\ MovingCommand(cmd'))
      ]_vars

\* After two moves, a line that is not a command has been refused with
\* both axes where the moves left them.
C32_Witness ==
    /\ Handled(L_Unknown)
    /\ posDegAZM # FZero /\ posDegALT # FZero
    /\ posDegAZM = pre.az /\ posDegALT = pre.alt
    /\ pulseNet["AZM"] # 0 /\ pulseNet["ALT"] # 0

(***************************************************************************)
(* C33.  Within one jog ($J= or J=, G91 or G53) the Run frame, second in   *)
(* the replies, shows the positions of both axes as they were before the   *)
(* move; the closing frame, last in the replies, shows the positions as    *)
(* they are after it.  While the pulse loop runs both positions stay at    *)
(* their pre-move values: the position of the moved axis changes in one    *)
(* step, the step that leaves the pulse loop, and by the whole requested   *)
(* angle.                                                                  *)
(***************************************************************************)
\* The current pass handles a well-formed $J= or J= jog.
InJog == \E j \in JogTable : j.form # "legacy" /\ Handling(j.line)

C33_RunFrameShowsPreMovePositions ==
    /\ [](InJog =>
            /\ Len(out) >= 2
            /\ out[2] = StatusFrame("Run", pre.az, pre.alt)
            /\ pc = "step" => (posDegAZM = pre.az /\ posDegALT = pre.alt)
            /\ pc = "loop" =>
                 out[Len(out)] = StatusFrame(HoldOrIdle(feedHold), posDegAZM, posDegALT))
    /\ [][(InJog /\ InJog' /\ ~ReadStep) =>
            /\ PulseStep => UNCHANGED <<posDegAZM, posDegALT>>
            /\ (posDegAZM' # posDegAZM \/ posDegALT' # posDegALT) =>
                  /\ ExitStep /\ pc' = "loop"
                  /\ \A a \in Axes :
                        CurPos(a)' = IF a = frame.axis
                                     THEN Val(fadd(Flt(CurPos(a)), frame.deltaDeg))
                                     ELSE CurPos(a)
          ]_vars

\* A jog has run its pulses with the other axis away from 0: its Run frame
\* and its closing frame show different azimuths and the same altitude.
C33_Witness ==
    /\ Handled(L_AbsX4)
    /\ PulseCount(out) = 2
    /\ pre.alt # FZero
    /\ out[2].x # out[Len(out)].x
    /\ out[2].y = out[Len(out)].y /\ out[2].y # printFloat3(FZero)

(***************************************************************************)
(* C34.  A legacy relative jog AZM:<d> or ALT:<d> has the same effect on   *)
(* the state as the relative jog $J=G91X<d>F<r> or $J=G91Y<d>F<r>: read    *)
(* from the same state, both are accepted or both refused, and when        *)
(* accepted both start the same move (axis, direction, number of pulses)   *)
(* and end at the same positions; only the reply lines differ.             *)
(***************************************************************************)
\* A legacy jog and the relative jog by the same angle on the same axis.
LegacyPairs ==
    {[legacy |-> L_AzmFrac, jog |-> L_RelXFrac],
     [legacy |-> L_AzmM3,   jog |-> L_RelXm3],
     [legacy |-> L_AltM2,   jog |-> L_RelYm2],
     [legacy |-> L_Azm1,    jog |-> L_RelX1],
     [legacy |-> L_Azm20,   jog |-> L_RelX20]}

\* The pass that ended in e has refused its jog.
Refused(e) ==
    \E i \in 1..Len(e.out) :
        /\ e.out[i].k = "line"
        /\ e.out[i].txt \in {"ERR:AZM limit", "ERR:ALT limit",
                             "error:AZM limit", "error:ALT limit"}
\* What a pass that has come to e does to the state: whether it refuses,
\* the move it starts, and the positions when that move has ended.
Effect(e) ==
    LET moving == e.pc = "step"
        done   == IF moving
                  THEN SetPos(e, e.frame.axis,
                              posAfterMove(Pos(e, e.frame.axis), e.frame.deltaDeg))
                  ELSE e
    IN  [refused |-> Refused(e),
         axis    |-> e.frame.axis,
         pulses  |-> IF moving /\ ~holdBreaks(e.hold) THEN e.frame.totalSteps ELSE 0,
         dir     |-> e.dir,
         hold    |-> e.hold,
         az      |-> done.az,
         alt     |-> done.alt]

C34_LegacyJogLikeRelativeJog ==
    [][\A p \in LegacyPairs :
          TakesLine(p.legacy) =>
              Effect([Now EXCEPT !.pc = pc, !.frame = frame])'
                  = Effect(dispatch([Now EXCEPT !.out = << >>], p.jog))
      ]_vars

\* From 8 degrees of azimuth the legacy jog by 2359 * 2^-22 degrees has
\* been handled: no pulse, position unchanged; the relative jog by the same
\* angle starts a move of one pulse from that state.
C34_Witness ==
    /\ Handled(L_AzmFrac)
    /\ pre.az = Flt(8 * Unit) /\ ~pre.hold
    /\ posDegAZM = Flt(8 * Unit) /\ NoPulse(out)
    /\ dispatch([Now EXCEPT !.az = pre.az, !.out = << >>], L_RelXFrac).frame.totalSteps = 1

=============================================================================
